---- MODULE Spec2Model ----
(***************************************************************************)
(* Model of the explorer's indexing engine: the parallel block fetcher and *)
(* in-order commit loop (indexer.rs), the column-family schema and its     *)
(* batch builders, and the mempool overlay reads (indexdb.rs).             *)
(*                                                                         *)
(* u32 values that can exceed 2^31-1 (outpoint.index = 0xffff_ffff) are    *)
(* carried as their four big-endian bytes, as the keys store them.         *)
(***************************************************************************)
EXTENDS Integers, Sequences, FiniteSets, TLC

(***************************************************************************)
(* Bounds of the model.                                                    *)
(***************************************************************************)
\* number of fetcher tasks (num_threads, 50 in the source)
NumThreads == 2
\* look-ahead window (MAX_FETCH_AHEAD, 1000 in the source)
MAX_FETCH_AHEAD == 2
\* height of the last block the chain source serves during initial sync
Tip == 2
\* greatest number of blocks already in the store when the indexer starts
MaxStartBlocks == 1
\* number of blocks the node mines after the initial sync
MaxLiveBlocks == 2

\* the largest skip and take of an address() call
MaxSkip == 2
MaxTake == 3

(***************************************************************************)
(* Program constants.                                                      *)
(***************************************************************************)
OP_DUP == 118
OP_HASH160 == 169
OP_EQUALVERIFY == 136
OP_CHECKSIG == 172
OP_EQUAL == 135
OP_RETURN == 106
P2PKH == 0
P2SH == 1

(***************************************************************************)
(* Option and Result values.                                               *)
(***************************************************************************)
None == [some |-> FALSE]
Some(x) == [some |-> TRUE, v |-> x]

Ok(x) == [ok |-> TRUE, v |-> x]
Err(e) == [ok |-> FALSE, err |-> e]
\* a panicking call (unwrap / expect / index out of range) unwinds the task
Panic == [ok |-> FALSE, err |-> "panic"]

\* Vec<Result<Vec<op>>> -> Result<Vec<op>>: the first failure in order wins.
RECURSIVE collect(_)
collect(rs) ==
    IF Len(rs) = 0 THEN Ok(<<>>)
    ELSE IF ~Head(rs).ok THEN Head(rs)
    ELSE LET rest == collect(Tail(rs))
         IN IF rest.ok THEN Ok(Head(rs).v \o rest.v) ELSE rest

RECURSIVE SumSeq(_)
SumSeq(s) == IF Len(s) = 0 THEN 0 ELSE Head(s) + SumSeq(Tail(s))

RECURSIVE SetToSeq(_)
SetToSeq(S) ==
    IF S = {} THEN <<>>
    ELSE LET x == CHOOSE y \in S : TRUE IN <<x>> \o SetToSeq(S \ {x})

(***************************************************************************)
(* Key codec.                                                              *)
(***************************************************************************)
ByteOf(n, k) == (n \div (256 ^ k)) % 256

\* U32::<BE>::new(n).as_bytes() / u32::to_be_bytes, for 0 <= n < 2^31
\* the four bytes of n, least significant first
U32LE(n) == <<ByteOf(n, 0), ByteOf(n, 1), ByteOf(n, 2), ByteOf(n, 3)>>

U32BE(n) == <<ByteOf(n, 3), ByteOf(n, 2), ByteOf(n, 1), ByteOf(n, 0)>>

\* (h as u32).to_be_bytes() for an i32 h: two's complement for h < 0
I32AsU32BE(h) ==
    IF h >= 0 THEN U32BE(h)
    ELSE LET m == (h + 2147483647) + 1
         IN <<128 + ByteOf(m, 3), ByteOf(m, 2), ByteOf(m, 1), ByteOf(m, 0)>>

\* u32::from_be_bytes
from_be_bytes(key) ==
    key[1] * 16777216 + key[2] * 65536 + key[3] * 256 + key[4]

\* <[u8; 32]>::try_from(slice)
try_into32(bytes) == IF Len(bytes) = 32 THEN Ok(bytes) ELSE Err("TryFromSliceError")

\* UtxoKey { tx_hash, out_idx }.as_bytes(); out_idx already big-endian bytes
UtxoKey(tx_hash, out_idx) == tx_hash \o out_idx

\* AddrKeyPrefix { addr_type, addr_hash }.as_bytes()
AddrKeyPrefix(addr_type, addr_hash) == <<addr_type>> \o addr_hash

\* AddrTxKey { addr_type, addr_hash, block_height, tx_hash }.as_bytes()
AddrTxKey(addr_type, addr_hash, block_height, tx_hash) ==
    AddrKeyPrefix(addr_type, addr_hash) \o I32AsU32BE(block_height) \o tx_hash

\* AddrUtxoKey { addr, utxo_key }.as_bytes()
AddrUtxoKey(addr_type, addr_hash, tx_hash, out_idx) ==
    AddrKeyPrefix(addr_type, addr_hash) \o UtxoKey(tx_hash, out_idx)

(***************************************************************************)
(* Script classification.                                                  *)
(***************************************************************************)
destination_from_script(script) ==
    LET n == Len(script) IN
    IF /\ n >= 5
       /\ script[1] = OP_DUP /\ script[2] = OP_HASH160 /\ script[3] = 20
       /\ script[n - 1] = OP_EQUALVERIFY /\ script[n] = OP_CHECKSIG
    THEN LET hash == SubSeq(script, 4, n - 2)
         IN IF Len(hash) = 20
            THEN [kind |-> "Address", addr_type |-> P2PKH, hash |-> hash]
            ELSE [kind |-> "Panic"]
    ELSE IF /\ n >= 3
            /\ script[1] = OP_HASH160 /\ script[2] = 20 /\ script[n] = OP_EQUAL
    THEN LET hash == SubSeq(script, 3, n - 1)
         IN IF Len(hash) = 20
            THEN [kind |-> "Address", addr_type |-> P2SH, hash |-> hash]
            ELSE [kind |-> "Panic"]
    ELSE IF n >= 2 /\ script[1] \in {33, 65} /\ script[n] = OP_CHECKSIG
    THEN [kind |-> "P2PK", pk |-> SubSeq(script, 2, n - 1)]
    ELSE IF n >= 1 /\ script[1] = OP_RETURN
    THEN [kind |-> "Nulldata", data |-> SubSeq(script, 2, n)]
    ELSE [kind |-> "Unknown", script |-> script]

\* &outpoint.hash == &[0; 32] && outpoint.index == 0xffff_ffff
is_coinbase(outpoint) ==
    /\ outpoint.hash = [i \in 1..32 |-> 0]
    /\ outpoint.index = <<255, 255, 255, 255>>

(***************************************************************************)
(* The store: sixteen column families, each an ordered map from key bytes  *)
(* to a value; a WriteBatch is a sequence of put/delete operations that    *)
(* db.write applies atomically, in order.                                  *)
(***************************************************************************)
ConfirmedCfs == {"block_height_idx", "block_meta", "tx_meta", "addr_tx_meta",
                 "addr_utxo", "utxo_set", "tx_out_spend", "token_meta"}

MempoolCfs == {"mempool_tx_meta", "mempool_addr_tx_meta",
               "mempool_addr_utxo_add", "mempool_addr_utxo_remove",
               "mempool_utxo_set_add", "mempool_utxo_set_remove",
               "mempool_tx_out_spend", "mempool_token_meta"}

EmptyCf == [k \in {} |-> 0]

\* IndexDb::open on a fresh directory
EmptyDb == [cf \in ConfirmedCfs \cup MempoolCfs |-> EmptyCf]

put_cf(cf, key, value) == [op |-> "put", cf |-> cf, key |-> key, value |-> value]
delete_cf(cf, key) == [op |-> "delete", cf |-> cf, key |-> key, value |-> <<>>]

Put(f, k, v) == [x \in DOMAIN f \cup {k} |-> IF x = k THEN v ELSE f[x]]
Delete(f, k) == [x \in DOMAIN f \ {k} |-> f[x]]

\* a write whose put merges into a row the store already holds instead of
\* replacing it
RECURSIVE db_write_merge(_, _)
db_write_merge(d, batch) ==
    IF Len(batch) = 0 THEN d
    ELSE LET o == Head(batch)
             d1 == [d EXCEPT ![o.cf] =
                       IF o.op = "put"
                       THEN Put(@, o.key, IF o.key \in DOMAIN @
                                          THEN [merged |-> o.value]
                                          ELSE o.value)
                       ELSE Delete(@, o.key)]
         IN db_write_merge(d1, Tail(batch))

\* rocksdb::DB::write(batch)
RECURSIVE db_write(_, _)
db_write(d, batch) ==
    IF Len(batch) = 0 THEN d
    ELSE LET o == Head(batch)
             d1 == [d EXCEPT ![o.cf] = IF o.op = "put" THEN Put(@, o.key, o.value)
                                       ELSE Delete(@, o.key)]
         IN db_write(d1, Tail(batch))

\* rocksdb::DB::get_cf
get_cf(d, cf, key) == IF key \in DOMAIN d[cf] THEN Some(d[cf][key]) ELSE None

(***************************************************************************)
(* Batch builders (indexdb.rs).                                            *)
(***************************************************************************)
cf_of(is_mempool, mempool_cf, confirmed_cf) ==
    IF is_mempool THEN mempool_cf ELSE confirmed_cf

\* add_block_height_idx with the height written in little-endian byte order
add_block_height_idx_le(block_info) ==
    LET key == I32AsU32BE(block_info.height)
    IN <<put_cf("block_height_idx", <<key[4], key[3], key[2], key[1]>>, block_info.hash)>>

\* add_block_height_idx writing every block under the key of height 0
add_block_height_idx_at_zero(block_info) ==
    <<put_cf("block_height_idx", U32BE(0), block_info.hash)>>

add_block_height_idx(block_info) ==
    <<put_cf("block_height_idx", I32AsU32BE(block_info.height), block_info.hash)>>

add_block_meta(block_info, txs) ==
    LET total_sats_input ==
            SumSeq([t \in 1..Len(txs) |->
                SumSeq([i \in 1..Len(txs[t].inputs) |-> txs[t].inputs[i].value])])
        total_sats_output ==
            SumSeq([t \in 1..Len(txs) |->
                SumSeq([i \in 1..Len(txs[t].outputs) |-> txs[t].outputs[i].value])])
    IN IF Len(txs) = 0 \/ Len(txs[1].inputs) = 0 THEN Panic
       ELSE IF ~try_into32(block_info.previous_block).ok
            THEN try_into32(block_info.previous_block)
       ELSE IF ~try_into32(block_info.merkle_root).ok
            THEN try_into32(block_info.merkle_root)
       ELSE Ok(<<put_cf("block_meta", block_info.hash,
                  [height |-> block_info.height,
                   version |-> block_info.version,
                   previous_block |-> block_info.previous_block,
                   merkle_root |-> block_info.merkle_root,
                   timestamp |-> block_info.timestamp,
                   bits |-> block_info.bits,
                   nonce |-> block_info.nonce,
                   total_sats_input |-> total_sats_input,
                   total_sats_output |-> total_sats_output,
                   difficulty |-> block_info.difficulty,
                   median_time |-> block_info.median_time,
                   size |-> block_info.size,
                   num_txs |-> Len(txs),
                   coinbase_data |-> txs[1].inputs[1].signature_script])>>)

token_amount_of(slp_token) == IF slp_token.some THEN slp_token.v.amount ELSE 0

SupportedSlpActions ==
    {"SlpV1Genesis", "SlpV1Mint", "SlpV1Send", "SlpV1Nft1GroupGenesis",
     "SlpV1Nft1GroupMint", "SlpV1Nft1GroupSend",
     "SlpV1Nft1UniqueChildGenesis", "SlpV1Nft1UniqueChildSend"}

tx_meta_variant(tx) ==
    IF ~tx.slp_transaction_info.some THEN Ok([variant |-> "SatsOnly"])
    ELSE
    LET slp == tx.slp_transaction_info.v
        input_sum == SumSeq([i \in 1..Len(tx.inputs) |->
                                token_amount_of(tx.inputs[i].slp_token)])
        output_sum == SumSeq([i \in 1..Len(tx.outputs) |->
                                 token_amount_of(tx.outputs[i].slp_token)])
    IN IF slp.validity_judgement = "UnknownOrInvalid"
       THEN IF input_sum = 0 THEN Ok([variant |-> "SatsOnly"])
            ELSE Ok([variant |-> "InvalidSlp", token_id |-> slp.token_id,
                     token_input |-> input_sum])
       ELSE IF slp.slp_action = "NonSlp" THEN Ok([variant |-> "SatsOnly"])
       ELSE IF slp.slp_action \in {"NonSlpBurn", "SlpParseError", "SlpUnsupportedVersion"}
       THEN Ok([variant |-> "InvalidSlp", token_id |-> slp.token_id,
                token_input |-> input_sum])
       ELSE IF ~try_into32(slp.token_id).ok THEN Panic
       ELSE Ok([variant |-> "Slp", action |-> slp.slp_action,
                token_input |-> input_sum, token_output |-> output_sum,
                token_id |-> slp.token_id])

add_tx_meta(tx, is_mempool) ==
    LET cf == cf_of(is_mempool, "mempool_tx_meta", "tx_meta") IN
    IF Len(tx.inputs) = 0 THEN Err("No input")
    ELSE IF ~tx.inputs[1].outpoint.some THEN Err("No outpoint")
    ELSE IF ~tx_meta_variant(tx).ok THEN Panic
    ELSE Ok(<<put_cf(cf, tx.hash,
              [block_height |-> tx.block_height,
               timestamp |-> tx.timestamp,
               is_coinbase |-> is_coinbase(tx.inputs[1].outpoint.v),
               size |-> tx.size,
               num_inputs |-> Len(tx.inputs),
               num_outputs |-> Len(tx.outputs),
               sats_input |-> SumSeq([i \in 1..Len(tx.inputs) |-> tx.inputs[i].value]),
               sats_output |-> SumSeq([i \in 1..Len(tx.outputs) |-> tx.outputs[i].value]),
               variant |-> tx_meta_variant(tx).v])>>)

\* the (delta_sats, delta_tokens) entry address_delta holds for one script
\* address_delta with the signs exchanged: inputs add, outputs subtract
address_delta_spent_minus_received(tx, script) ==
    [delta_sats |->
        SumSeq([i \in 1..Len(tx.inputs) |->
                IF tx.inputs[i].previous_script = script THEN tx.inputs[i].value ELSE 0])
        - SumSeq([i \in 1..Len(tx.outputs) |->
                IF tx.outputs[i].pubkey_script = script THEN tx.outputs[i].value ELSE 0]),
     delta_tokens |->
        SumSeq([i \in 1..Len(tx.inputs) |->
                IF tx.inputs[i].previous_script = script
                THEN token_amount_of(tx.inputs[i].slp_token) ELSE 0])
        - SumSeq([i \in 1..Len(tx.outputs) |->
                IF tx.outputs[i].pubkey_script = script
                THEN token_amount_of(tx.outputs[i].slp_token) ELSE 0])]

address_delta(tx, script) ==
    [delta_sats |->
        SumSeq([i \in 1..Len(tx.outputs) |->
                IF tx.outputs[i].pubkey_script = script THEN tx.outputs[i].value ELSE 0])
        - SumSeq([i \in 1..Len(tx.inputs) |->
                IF tx.inputs[i].previous_script = script THEN tx.inputs[i].value ELSE 0]),
     delta_tokens |->
        SumSeq([i \in 1..Len(tx.outputs) |->
                IF tx.outputs[i].pubkey_script = script
                THEN token_amount_of(tx.outputs[i].slp_token) ELSE 0])
        - SumSeq([i \in 1..Len(tx.inputs) |->
                IF tx.inputs[i].previous_script = script
                THEN token_amount_of(tx.inputs[i].slp_token) ELSE 0])]

\* add_addr_tx_meta that looks at the output scripts only
add_addr_tx_meta_outputs_only(tx, is_mempool) ==
    LET cf == cf_of(is_mempool, "mempool_addr_tx_meta", "addr_tx_meta")
        scripts == SetToSeq({tx.outputs[i].pubkey_script : i \in 1..Len(tx.outputs)})
        entry(pubkey_script) ==
            LET destination == destination_from_script(pubkey_script)
                delta == address_delta(tx, pubkey_script)
            IN IF destination.kind = "Panic" THEN Panic
               ELSE IF destination.kind # "Address" THEN Ok(<<>>)
               ELSE IF ~try_into32(tx.hash).ok THEN try_into32(tx.hash)
               ELSE Ok(<<put_cf(cf,
                         AddrTxKey(destination.addr_type, destination.hash,
                                   tx.block_height, tx.hash),
                         [timestamp |-> tx.timestamp,
                          block_height |-> tx.block_height,
                          delta_sats |-> delta.delta_sats,
                          delta_tokens |-> delta.delta_tokens])>>)
    IN collect([i \in 1..Len(scripts) |-> entry(scripts[i])])

add_addr_tx_meta(tx, is_mempool) ==
    LET cf == cf_of(is_mempool, "mempool_addr_tx_meta", "addr_tx_meta")
        scripts == SetToSeq({tx.inputs[i].previous_script : i \in 1..Len(tx.inputs)}
                            \cup {tx.outputs[i].pubkey_script : i \in 1..Len(tx.outputs)})
        entry(pubkey_script) ==
            LET destination == destination_from_script(pubkey_script)
                delta == address_delta(tx, pubkey_script)
            IN IF destination.kind = "Panic" THEN Panic
               ELSE IF destination.kind # "Address" THEN Ok(<<>>)
               ELSE IF ~try_into32(tx.hash).ok THEN try_into32(tx.hash)
               ELSE Ok(<<put_cf(cf,
                         AddrTxKey(destination.addr_type, destination.hash,
                                   tx.block_height, tx.hash),
                         [timestamp |-> tx.timestamp,
                          block_height |-> tx.block_height,
                          delta_sats |-> delta.delta_sats,
                          delta_tokens |-> delta.delta_tokens])>>)
    IN collect([i \in 1..Len(scripts) |-> entry(scripts[i])])

\* utxo_removals that deletes the confirmed row for a mempool spend as well
utxo_removals_delete_confirmed(tx, is_mempool) ==
    collect([i \in 1..Len(tx.inputs) |->
        IF ~tx.inputs[i].outpoint.some THEN Ok(<<>>)
        ELSE LET outpoint == tx.inputs[i].outpoint.v IN
             IF ~try_into32(outpoint.hash).ok THEN try_into32(outpoint.hash)
             ELSE IF is_mempool
                  THEN Ok(<<put_cf("mempool_utxo_set_remove",
                                   UtxoKey(outpoint.hash, outpoint.index), <<>>),
                            delete_cf("utxo_set",
                                      UtxoKey(outpoint.hash, outpoint.index))>>)
                  ELSE Ok(<<delete_cf("utxo_set",
                                      UtxoKey(outpoint.hash, outpoint.index))>>)])

\* utxo_removals that records no mempool_utxo_set_remove row for a mempool spend
utxo_removals_no_hide(tx, is_mempool) ==
    collect([i \in 1..Len(tx.inputs) |->
        IF ~tx.inputs[i].outpoint.some THEN Ok(<<>>)
        ELSE LET outpoint == tx.inputs[i].outpoint.v IN
             IF ~try_into32(outpoint.hash).ok THEN try_into32(outpoint.hash)
             ELSE IF is_mempool THEN Ok(<<>>)
                  ELSE Ok(<<delete_cf("utxo_set",
                                      UtxoKey(outpoint.hash, outpoint.index))>>)])

\* the second loop of update_utxo_set: one removal per input with an outpoint
utxo_removals(tx, is_mempool) ==
    collect([i \in 1..Len(tx.inputs) |->
        IF ~tx.inputs[i].outpoint.some THEN Ok(<<>>)
        ELSE LET outpoint == tx.inputs[i].outpoint.v IN
             IF ~try_into32(outpoint.hash).ok THEN try_into32(outpoint.hash)
             ELSE IF is_mempool
                  THEN Ok(<<put_cf("mempool_utxo_set_remove",
                                   UtxoKey(outpoint.hash, outpoint.index), <<>>)>>)
                  ELSE Ok(<<delete_cf("utxo_set",
                                      UtxoKey(outpoint.hash, outpoint.index))>>)])

\* the first loop of update_utxo_set: one Utxo row per output
utxo_additions(tx, is_mempool) ==
    LET cf_add == cf_of(is_mempool, "mempool_utxo_set_add", "utxo_set")
        slp == tx.slp_transaction_info
        has_token == slp.some /\ Len(slp.v.token_id) # 0
    IN IF ~try_into32(tx.hash).ok THEN try_into32(tx.hash)
       ELSE IF has_token /\ ~try_into32(slp.v.token_id).ok THEN try_into32(slp.v.token_id)
       ELSE IF Len(tx.inputs) = 0 THEN Err("No input")
       ELSE IF ~tx.inputs[1].outpoint.some THEN Err("No outpoint")
       ELSE Ok([out_idx \in 1..Len(tx.outputs) |->
                put_cf(cf_add, UtxoKey(tx.hash, U32BE(out_idx - 1)),
                       [sats_amount |-> tx.outputs[out_idx].value,
                        token_amount |-> token_amount_of(tx.outputs[out_idx].slp_token),
                        is_coinbase |-> is_coinbase(tx.inputs[1].outpoint.v),
                        block_height |-> tx.block_height,
                        token_id |-> IF has_token THEN Some(slp.v.token_id) ELSE None])])

\* update_utxo_set with the removal loop ahead of the insertion loop
update_utxo_set_removals_first(txs, is_mempool) ==
    collect([t \in 1..Len(txs) |-> utxo_removals(txs[t], is_mempool)]
            \o [t \in 1..Len(txs) |-> utxo_additions(txs[t], is_mempool)])

update_utxo_set(txs, is_mempool) ==
    collect([t \in 1..Len(txs) |-> utxo_additions(txs[t], is_mempool)]
            \o [t \in 1..Len(txs) |-> utxo_removals(txs[t], is_mempool)])

addr_utxo_additions(tx, is_mempool) ==
    LET cf_add == cf_of(is_mempool, "mempool_addr_utxo_add", "addr_utxo") IN
    IF ~try_into32(tx.hash).ok THEN try_into32(tx.hash)
    ELSE collect([out_idx \in 1..Len(tx.outputs) |->
            LET destination == destination_from_script(tx.outputs[out_idx].pubkey_script)
            IN IF destination.kind = "Panic" THEN Panic
               ELSE IF destination.kind # "Address" THEN Ok(<<>>)
               ELSE Ok(<<put_cf(cf_add,
                         AddrUtxoKey(destination.addr_type, destination.hash,
                                     tx.hash, U32BE(out_idx - 1)), <<>>)>>)])

addr_utxo_removals(tx, is_mempool) ==
    collect([i \in 1..Len(tx.inputs) |->
        LET destination == destination_from_script(tx.inputs[i].previous_script)
        IN IF destination.kind = "Panic" THEN Panic
           ELSE IF destination.kind # "Address" \/ ~tx.inputs[i].outpoint.some THEN Ok(<<>>)
           ELSE LET outpoint == tx.inputs[i].outpoint.v
                    key == AddrUtxoKey(destination.addr_type, destination.hash,
                                       outpoint.hash, outpoint.index)
                IN IF ~try_into32(outpoint.hash).ok THEN try_into32(outpoint.hash)
                   ELSE IF is_mempool
                        THEN Ok(<<put_cf("mempool_addr_utxo_remove", key, <<>>)>>)
                        ELSE Ok(<<delete_cf("addr_utxo", key)>>)])

\* update_addr_utxo_set without the loop over the inputs
update_addr_utxo_set_additions_only(txs, is_mempool) ==
    collect([t \in 1..Len(txs) |-> addr_utxo_additions(txs[t], is_mempool)])

update_addr_utxo_set(txs, is_mempool) ==
    collect([t \in 1..Len(txs) |-> addr_utxo_additions(txs[t], is_mempool)]
            \o [t \in 1..Len(txs) |-> addr_utxo_removals(txs[t], is_mempool)])

add_tx_out_spend(tx, is_mempool) ==
    LET cf == cf_of(is_mempool, "mempool_tx_out_spend", "tx_out_spend") IN
    IF ~try_into32(tx.hash).ok THEN try_into32(tx.hash)
    ELSE collect([input_idx \in 1..Len(tx.inputs) |->
            IF ~tx.inputs[input_idx].outpoint.some THEN Ok(<<>>)
            ELSE LET outpoint == tx.inputs[input_idx].outpoint.v IN
                 IF ~try_into32(outpoint.hash).ok THEN try_into32(outpoint.hash)
                 ELSE Ok(<<put_cf(cf, UtxoKey(outpoint.hash, outpoint.index),
                                  [by_tx_hash |-> tx.hash,
                                   by_tx_input_idx |-> U32BE(input_idx - 1)])>>)])

\* add_token_meta without the validity test
add_token_meta_any_validity(tx, is_mempool) ==
    LET cf == cf_of(is_mempool, "mempool_token_meta", "token_meta")
        info == tx.slp_transaction_info
    IN IF ~info.some \/ Len(info.v.token_id) = 0 THEN Ok(<<>>)
       ELSE IF ~info.v.tx_metadata.some THEN Ok(<<>>)
       ELSE IF info.v.slp_action \in {"SlpV1Genesis", "SlpV1Nft1GroupGenesis",
                                      "SlpV1Nft1UniqueChildGenesis"}
       THEN Ok(<<put_cf(cf, info.v.token_id,
                 [token_type |-> 1,
                  token_ticker |-> info.v.tx_metadata.v.ticker,
                  token_name |-> info.v.tx_metadata.v.name,
                  token_document_url |-> info.v.tx_metadata.v.document_url,
                  token_document_hash |-> info.v.tx_metadata.v.document_hash,
                  decimals |-> info.v.tx_metadata.v.decimals,
                  group_id |-> None])>>)
       ELSE Ok(<<>>)

add_token_meta(tx, is_mempool) ==
    LET cf == cf_of(is_mempool, "mempool_token_meta", "token_meta")
        info == tx.slp_transaction_info
    IN IF ~info.some \/ Len(info.v.token_id) = 0 THEN Ok(<<>>)
       ELSE IF info.v.validity_judgement # "Valid" THEN Ok(<<>>)
       ELSE
       LET slp == info.v
           genesis == slp.tx_metadata
           meta(token_type, group_id) ==
               [token_type |-> token_type,
                token_ticker |-> genesis.v.ticker,
                token_name |-> genesis.v.name,
                token_document_url |-> genesis.v.document_url,
                token_document_hash |-> genesis.v.document_hash,
                decimals |-> genesis.v.decimals,
                group_id |-> group_id]
       IN IF ~genesis.some THEN Ok(<<>>)
          ELSE IF slp.slp_action = "SlpV1Genesis" /\ genesis.v.kind = "V1Genesis"
          THEN Ok(<<put_cf(cf, slp.token_id, meta(1, None))>>)
          ELSE IF slp.slp_action = "SlpV1Nft1GroupGenesis" /\ genesis.v.kind = "V1Genesis"
          THEN Ok(<<put_cf(cf, slp.token_id, meta(129, None))>>)
          ELSE IF /\ slp.slp_action = "SlpV1Nft1UniqueChildGenesis"
                  /\ genesis.v.kind = "V1Nft1ChildGenesis"
          THEN Ok(<<put_cf(cf, slp.token_id,
                     meta(65, IF Len(genesis.v.group_token_id) = 32
                              THEN Some(genesis.v.group_token_id)
                              ELSE Some([i \in 1..32 |-> 0])))>>)
          ELSE Ok(<<>>)

\* the per-transaction loop shared by both batch builders
tx_rows(tx, is_mempool) ==
    collect(<<add_tx_meta(tx, is_mempool), add_addr_tx_meta(tx, is_mempool),
              add_tx_out_spend(tx, is_mempool), add_token_meta(tx, is_mempool)>>)

make_block_batches(block) ==
    IF ~block.info.some THEN Err("No block info")
    ELSE IF \E i \in 1..Len(block.transaction_data) :
                block.transaction_data[i].kind # "Transaction"
    THEN Err("Invalid tx in handle_block")
    ELSE
    LET block_info == block.info.v
        txs == [i \in 1..Len(block.transaction_data) |-> block.transaction_data[i].tx]
        batch == collect(<<Ok(add_block_height_idx(block_info)),
                           add_block_meta(block_info, txs),
                           update_addr_utxo_set(txs, FALSE),
                           update_utxo_set(txs, FALSE)>>
                         \o [t \in 1..Len(txs) |-> tx_rows(txs[t], FALSE)])
    IN IF batch.ok
       THEN Ok([block_height |-> block_info.height, batch |-> batch.v])
       ELSE batch

make_mempool_tx_batches(txs) ==
    collect(<<update_addr_utxo_set(txs, TRUE), update_utxo_set(txs, TRUE)>>
            \o [t \in 1..Len(txs) |-> tx_rows(txs[t], TRUE)])

\* clear_mempool that leaves mempool_utxo_set_remove alone
ClearOrder_without_remove ==
    <<"mempool_tx_meta", "mempool_addr_tx_meta", "mempool_addr_utxo_add",
      "mempool_addr_utxo_remove", "mempool_utxo_set_add", "mempool_tx_out_spend",
      "mempool_token_meta">>

\* the eight delete_range_cf calls of clear_mempool, in their order
ClearOrder == <<"mempool_tx_meta", "mempool_addr_tx_meta", "mempool_addr_utxo_add",
                "mempool_addr_utxo_remove", "mempool_utxo_set_add",
                "mempool_utxo_set_remove", "mempool_tx_out_spend",
                "mempool_token_meta">>

\* clear_cf that deletes nothing
clear_cf_nothing(d, cf) == d

clear_cf(d, cf) == [d EXCEPT ![cf] = EmptyCf]

(***************************************************************************)
(* Reads (indexdb.rs).                                                     *)
(***************************************************************************)
block_hash_at(d, height) == get_cf(d, "block_height_idx", U32BE(height))

block_meta(d, block_hash) == get_cf(d, "block_meta", block_hash)

\* utxo that consults mempool_utxo_set_add before mempool_utxo_set_remove
utxo_add_first(d, utxo_key) ==
    IF get_cf(d, "mempool_utxo_set_add", utxo_key).some
    THEN get_cf(d, "mempool_utxo_set_add", utxo_key)
    ELSE IF get_cf(d, "mempool_utxo_set_remove", utxo_key).some THEN None
         ELSE get_cf(d, "utxo_set", utxo_key)

utxo(d, utxo_key) ==
    IF get_cf(d, "mempool_utxo_set_remove", utxo_key).some THEN None
    ELSE IF get_cf(d, "mempool_utxo_set_add", utxo_key).some
         THEN get_cf(d, "mempool_utxo_set_add", utxo_key)
         ELSE get_cf(d, "utxo_set", utxo_key)

tx_meta(d, tx_hash) ==
    IF get_cf(d, "mempool_tx_meta", tx_hash).some
    THEN get_cf(d, "mempool_tx_meta", tx_hash)
    ELSE get_cf(d, "tx_meta", tx_hash)

token_meta(d, token_id) ==
    IF get_cf(d, "mempool_token_meta", token_id).some
    THEN get_cf(d, "mempool_token_meta", token_id)
    ELSE get_cf(d, "token_meta", token_id)

(***************************************************************************)
(* Raw iterators.  A column family orders its keys bytewise; an iterator   *)
(* walks the keys the column family held when the iterator was created.    *)
(* Position 0 is "before the first key", Len + 1 "past the last key";      *)
(* both are invalid.                                                       *)
(***************************************************************************)
\* bytewise comparison: a < b
RECURSIVE BytesLess(_, _)
BytesLess(a, b) ==
    IF Len(b) = 0 THEN FALSE
    ELSE IF Len(a) = 0 THEN TRUE
    ELSE IF a[1] # b[1] THEN a[1] < b[1]
    ELSE BytesLess(Tail(a), Tail(b))

\* the keys of a column family in iteration order
RECURSIVE SortedKeys(_)
SortedKeys(keys) ==
    IF keys = {} THEN <<>>
    ELSE LET least == CHOOSE k \in keys : \A j \in keys \ {k} : BytesLess(k, j)
         IN <<least>> \o SortedKeys(keys \ {least})

raw_iterator_cf(d, cf) == SortedKeys(DOMAIN d[cf])

\* seek_to_last on block_height_idx: the greatest key in byte order, decoded
last_block_height(d) ==
    LET keys == raw_iterator_cf(d, "block_height_idx") IN
    IF Len(keys) = 0 THEN 0 ELSE from_be_bytes(keys[Len(keys)])

iter_valid(keys, pos) == pos >= 1 /\ pos <= Len(keys)

\* iterator.seek(target): the first key >= target
seek(keys, target) ==
    LET at_or_after == {i \in 1..Len(keys) : ~BytesLess(keys[i], target)}
    IN IF at_or_after = {} THEN Len(keys) + 1
       ELSE CHOOSE i \in at_or_after : \A j \in at_or_after : i <= j

\* what iterator.prev() does to an iterator that is not valid: RocksDB
\* leaves it undefined; a build keeps the iterator invalid, lands on the last
\* key, or aborts on the assertion
PrevOnInvalid == {"invalid", "last", "abort"}

\* fn inc_bytes: increment a big-endian byte string, wrapping
RECURSIVE inc_bytes(_)
inc_bytes(bytes) ==
    IF Len(bytes) = 0 THEN <<>>
    ELSE LET n == Len(bytes)
             last == (bytes[n] + 1) % 256
         IN IF last # 0 THEN [bytes EXCEPT ![n] = last]
            ELSE Append(inc_bytes(SubSeq(bytes, 1, n - 1)), 0)

\* the fields of an AddrTxKey / AddrUtxoKey read back from key bytes
addr_hash_of(key) == SubSeq(key, 2, 21)
addr_of(key) == SubSeq(key, 1, 21)
tx_hash_of(key) == SubSeq(key, 26, 57)
utxo_key_of(key) == SubSeq(key, 22, 57)

\* seek to start_height, then read up to num_blocks rows in key order
block_range(d, start_height, num_blocks) ==
    LET keys == raw_iterator_cf(d, "block_height_idx")
        pos == seek(keys, U32BE(start_height))
        count == IF Len(keys) - pos + 1 < num_blocks THEN Len(keys) - pos + 1
                 ELSE num_blocks
        entry(i) ==
            LET hash == d["block_height_idx"][keys[pos + i - 1]]
            IN IF ~try_into32(hash).ok THEN try_into32(hash)
               ELSE IF ~get_cf(d, "block_meta", hash).some THEN Err("No entry")
               ELSE Ok(<<<<hash, get_cf(d, "block_meta", hash).v>>>>)
    IN collect([i \in 1..count |-> entry(i)])

\* strings are sequences of characters; hex::decode and hex::encode
HexDigits == <<"0", "1", "2", "3", "4", "5", "6", "7", "8", "9",
               "a", "b", "c", "d", "e", "f">>

hex_val(c) == (CHOOSE i \in 1..16 : HexDigits[i] = c) - 1

hex_decode(string) ==
    IF Len(string) % 2 # 0 THEN Err("OddLength")
    ELSE IF \E i \in 1..Len(string) : \A j \in 1..16 : HexDigits[j] # string[i]
    THEN Err("InvalidHexCharacter")
    ELSE Ok([i \in 1..(Len(string) \div 2) |->
                16 * hex_val(string[2 * i - 1]) + hex_val(string[2 * i])])

hex_encode(bytes) ==
    [i \in 1..(2 * Len(bytes)) |->
        IF i % 2 = 1 THEN HexDigits[(bytes[(i + 1) \div 2] \div 16) + 1]
        ELSE HexDigits[(bytes[i \div 2] % 16) + 1]]

to_le_hex(slice) == hex_encode([i \in 1..Len(slice) |-> slice[Len(slice) + 1 - i]])

from_le_hex(string) ==
    IF ~hex_decode(string).ok THEN hex_decode(string)
    ELSE Ok([i \in 1..Len(hex_decode(string).v) |->
                hex_decode(string).v[Len(hex_decode(string).v) + 1 - i]])

\* str::parse::<u32>: decimal digits only; strings of more than nine digits
\* after the leading zeros are taken as out of range
RECURSIVE decimal_value(_)
decimal_value(string) ==
    IF Len(string) = 0 THEN 0
    ELSE 10 * decimal_value(SubSeq(string, 1, Len(string) - 1))
         + hex_val(string[Len(string)])

parse_u32(string) ==
    LET zeros == {i \in 0..Len(string) : \A j \in 1..i : string[j] = "0"}
        lead == CHOOSE i \in zeros : \A j \in zeros : j <= i
    IN IF Len(string) = 0 THEN Err("Empty")
       ELSE IF \E i \in 1..Len(string) : \A j \in 1..10 : HexDigits[j] # string[i]
       THEN Err("InvalidDigit")
       ELSE IF Len(string) - lead > 9 THEN Err("PosOverflow")
       ELSE Ok(decimal_value(string))

\* Address::from_cash_addr accepts the cash addresses; their base32 payload
\* starts with q or p, so none of them is a hex or a digit string
SampleCashAddr == <<"q", "p", "z", "r", "y", "9">>

from_cash_addr(string) ==
    IF string = SampleCashAddr
    THEN Ok([addr_type |-> P2PKH, hash |-> [i \in 1..20 |-> 1], cash_addr |-> string])
    ELSE Err("InvalidCashAddr")

search(d, query) ==
    IF from_cash_addr(query).ok
    THEN Ok(Some([route |-> "address", arg |-> from_cash_addr(query).v.cash_addr]))
    ELSE IF ~from_le_hex(query).ok THEN from_le_hex(query)
    ELSE
    LET bytes == from_le_hex(query).v
        block_height == IF parse_u32(query).ok THEN parse_u32(query).v ELSE 0
    IN IF tx_meta(d, bytes).some THEN Ok(Some([route |-> "tx", arg |-> query]))
       ELSE IF block_height = 0
       THEN \* block_meta returns Ok(None) for an unknown hash: Ok(_) matches
            Ok(Some([route |-> "block", arg |-> query]))
       ELSE IF block_hash_at(d, block_height).some
       THEN Ok(Some([route |-> "block-height", arg |-> block_height]))
       ELSE Ok(None)

\* the entry address() pushes for one row, or the "No tx meta" error; the row
\* comes from the iterator (the store d_iter it was created on), tx_meta is
\* looked up in the store d_get of the moment
address_entry(d_iter, d_get, cf, key) ==
    IF tx_meta(d_get, tx_hash_of(key)).some
    THEN Ok(<<[tx_hash |-> tx_hash_of(key), address_tx |-> d_iter[cf][key],
               tx_meta |-> tx_meta(d_get, tx_hash_of(key)).v]>>)
    ELSE Err("No tx meta")

\* how many rows a take loop visits from pos in direction step (+1 / -1):
\* it stops at an invalid position, at the limit, or at another addr_hash
RECURSIVE take_count(_, _, _, _, _)
take_count(keys, pos, step, addr_hash, limit) ==
    IF limit <= 0 \/ ~iter_valid(keys, pos) \/ addr_hash_of(keys[pos]) # addr_hash
    THEN 0
    ELSE 1 + take_count(keys, pos + step, step, addr_hash, limit - 1)

\* IndexDb::address as a sequence of store reads: the mempool iterator is
\* created on the store dm and its tx_meta lookups see dgm, the confirmed
\* iterator is created on dc and its lookups see dgc; prev_on_invalid is the
\* outcome of the undefined prev()
address_reads(dm, dgm, dc, dgc, addr_type, addr_hash, skip, take, prev_on_invalid) ==
    LET addr_prefix == AddrKeyPrefix(addr_type, addr_hash)
        mkeys == raw_iterator_cf(dm, "mempool_addr_tx_meta")
        mseek == seek(mkeys, addr_prefix)
        mpos == IF mseek + skip > Len(mkeys) THEN Len(mkeys) + 1 ELSE mseek + skip
        n == take_count(mkeys, mpos, 1, addr_hash, take)
        mempool_entries ==
            [i \in 1..n |->
                address_entry(dm, dgm, "mempool_addr_tx_meta", mkeys[mpos + i - 1])]
        ckeys == raw_iterator_cf(dc, "addr_tx_meta")
        cseek == seek(ckeys, inc_bytes(addr_prefix))
        cprev == IF iter_valid(ckeys, cseek) THEN cseek - 1
                 ELSE IF prev_on_invalid = "last" THEN Len(ckeys)
                 ELSE cseek
        to_skip == IF skip > n THEN skip - n ELSE 0
        cpos == IF ~iter_valid(ckeys, cprev) THEN cprev
                ELSE IF cprev - to_skip < 0 THEN 0 ELSE cprev - to_skip
        m == take_count(ckeys, cpos, -1, addr_hash, take - n)
        confirmed_entries ==
            [i \in 1..m |-> address_entry(dc, dgc, "addr_tx_meta", ckeys[cpos - i + 1])]
    IN IF ~iter_valid(ckeys, cseek) /\ prev_on_invalid = "abort"
       THEN collect(mempool_entries \o <<Panic>>)
       ELSE collect(mempool_entries \o confirmed_entries)

\* IndexDb::address with no write during the call
address(d, addr_type, addr_hash, skip, take, prev_on_invalid) ==
    address_reads(d, d, d, d, addr_type, addr_hash, skip, take, prev_on_invalid)

\* `while let Some(key) = iter.key() { if field != target { break } ...; next }`:
\* the keys from pos up to the first key whose bytes lo..hi differ from target
scan_while(keys, pos, lo, hi, target) ==
    LET stops == {i \in pos..Len(keys) : SubSeq(keys[i], lo, hi) # target}
        end == IF stops = {} THEN Len(keys)
               ELSE (CHOOSE i \in stops : \A j \in stops : i <= j) - 1
    IN SubSeq(keys, pos, end)

\* HashMap::insert
hash_map_insert(map, k, v) == (k :> v) @@ map

RECURSIVE insert_all(_, _)
insert_all(map, entries) ==
    IF Len(entries) = 0 THEN map
    ELSE insert_all(hash_map_insert(map, entries[1].k, entries[1].v), Tail(entries))

\* utxo_key.out_idx, a U32<BE>: kept as its four big-endian bytes
out_idx_of(utxo_key) == SubSeq(utxo_key, 33, 36)

\* tx_out_spends without the tx_hash test: every key from the seek position on
tx_out_rows_no_break(d, cf, tx_hash) ==
    LET keys == raw_iterator_cf(d, cf)
    IN SubSeq(keys, seek(keys, tx_hash), Len(keys))

\* the rows one loop pass of tx_out_spends visits in column family cf
tx_out_rows(d, cf, tx_hash) ==
    LET keys == raw_iterator_cf(d, cf)
    IN scan_while(keys, seek(keys, tx_hash), 1, 32, tx_hash)

\* IndexDb::tx_out_spends: out_idx -> None | Some(TxOutSpend)
tx_out_spends(d, tx_hash) ==
    LET unspent(cf) ==
            LET rows == tx_out_rows(d, cf, tx_hash)
            IN [i \in 1..Len(rows) |-> [k |-> out_idx_of(rows[i]), v |-> None]]
        spent(cf) ==
            LET rows == tx_out_rows(d, cf, tx_hash)
            IN [i \in 1..Len(rows) |->
                    [k |-> out_idx_of(rows[i]), v |-> Some(d[cf][rows[i]])]]
    IN insert_all(<<>>, unspent("mempool_utxo_set_add") \o unspent("utxo_set")
                        \o spent("mempool_tx_out_spend") \o spent("tx_out_spend"))

\* IndexDb::address_num_txs
address_num_txs(d, addr_type, addr_hash) ==
    LET addr_prefix == AddrKeyPrefix(addr_type, addr_hash)
        count(cf) ==
            LET keys == raw_iterator_cf(d, cf)
            IN Len(scan_while(keys, seek(keys, addr_prefix), 2, 21, addr_hash))
    IN count("mempool_addr_tx_meta") + count("addr_tx_meta")

\* the body of the address_balance loop for the resolved rows, in order
RECURSIVE add_utxos(_, _)
add_utxos(acc, found) ==
    IF Len(found) = 0 THEN acc
    ELSE LET utxo_key == found[1][1]
             u == found[1][2]
             t == u.token_id
             token_utxos == IF t \in DOMAIN acc.utxos THEN acc.utxos[t] ELSE <<>>
             balance == IF t \in DOMAIN acc.balances THEN acc.balances[t] ELSE <<0, 0>>
         IN add_utxos([utxos |-> hash_map_insert(acc.utxos, t,
                                    Append(token_utxos, <<utxo_key, u>>)),
                       balances |-> hash_map_insert(acc.balances, t,
                                    <<balance[1] + u.sats_amount,
                                      balance[2] + u.token_amount>>)],
                      Tail(found))

\* IndexDb::address_balance as a sequence of store reads: the iterator over
\* mempool_addr_utxo_add is created on dm and the utxo() lookups of its rows
\* see dgm, the iterator over addr_utxo is created on dc and its lookups see dgc
address_balance_reads(dm, dgm, dc, dgc, addr_type, addr_hash) ==
    LET addr_prefix == AddrKeyPrefix(addr_type, addr_hash)
        found(d_iter, d_get, cf) ==
            LET keys == raw_iterator_cf(d_iter, cf)
                visited == scan_while(keys, seek(keys, addr_prefix), 1, 21, addr_prefix)
                present == SelectSeq(visited,
                                     LAMBDA key : utxo(d_get, utxo_key_of(key)).some)
            IN [i \in 1..Len(present) |->
                    <<utxo_key_of(present[i]), utxo(d_get, utxo_key_of(present[i])).v>>]
    IN add_utxos([utxos |-> (None :> <<>>), balances |-> (None :> <<0, 0>>)],
                 found(dm, dgm, "mempool_addr_utxo_add") \o found(dc, dgc, "addr_utxo"))

\* IndexDb::address_balance with no write during the call
address_balance(d, addr_type, addr_hash) ==
    address_balance_reads(d, d, d, d, addr_type, addr_hash)

(***************************************************************************)
(* The chain source.  Blocks and transactions have the shape the gRPC      *)
(* messages have (mocker.rs builds the same records); a transaction        *)
(* carries the height of its block.                                        *)
(***************************************************************************)
Hash32(a, b) == [i \in 1..32 |-> IF i = 1 THEN a ELSE IF i = 2 THEN b ELSE 0]
Hash20(n) == [i \in 1..20 |-> n]

\* mocker.rs generate_script: a pay-to-public-key-hash script
generate_script(n) ==
    <<OP_DUP, OP_HASH160, 20>> \o Hash20(n) \o <<OP_EQUALVERIFY, OP_CHECKSIG>>
P2shScript(n) == <<OP_HASH160, 20>> \o Hash20(n) \o <<OP_EQUAL>>
NulldataScript == <<OP_RETURN, 4, 83, 76, 80, 0>>
P2pkScript == <<33>> \o [i \in 1..33 |-> 2] \o <<OP_CHECKSIG>>

Input(hash, index, previous_script, value) ==
    [outpoint |-> Some([hash |-> hash, index |-> index]),
     signature_script |-> <<>>, previous_script |-> previous_script,
     value |-> value, slp_token |-> None]

Output(pubkey_script, value) ==
    [pubkey_script |-> pubkey_script, value |-> value, slp_token |-> None]

generate_transaction(hash, height, inputs, outputs) ==
    [hash |-> hash, inputs |-> inputs, outputs |-> outputs, size |-> 100,
     timestamp |-> 1000 + height, block_height |-> height,
     slp_transaction_info |-> None]

generate_block(height, block_hash, previous_block, txs) ==
    [info |-> Some([hash |-> block_hash, height |-> height, version |-> 1,
                    previous_block |-> previous_block,
                    merkle_root |-> Hash32(250, height),
                    timestamp |-> 1000 + height, bits |-> 2, nonce |-> 7,
                    difficulty |-> 1, size |-> 100 * Len(txs),
                    median_time |-> 1000 + height]),
     transaction_data |-> [i \in 1..Len(txs) |-> [kind |-> "Transaction", tx |-> txs[i]]]]

\* the script the coinbase of height h pays: the same hash160 as P2PKH and as P2SH
CoinbaseScript(h) == IF h % 2 = 0 THEN generate_script(1) ELSE P2shScript(1)

CoinbaseTx(h) ==
    generate_transaction(Hash32(1, h), h,
        <<Input(Hash32(0, 0), <<255, 255, 255, 255>>, <<>>, 0)>>,
        <<Output(CoinbaseScript(h), 50)>>)

\* spends the coinbase of the block below
SpendTx(h) ==
    generate_transaction(Hash32(3, h), h,
        <<Input(Hash32(1, h - 1), U32BE(0), CoinbaseScript(h - 1), 50)>>,
        <<Output(generate_script(2), 30), Output(P2pkScript, 20)>>)

\* spends output 0 of SpendTx(h) inside the same block; its hash sorts first
ChildTx(h) ==
    generate_transaction(Hash32(2, h), h,
        <<Input(Hash32(3, h), U32BE(0), generate_script(2), 30)>>,
        <<Output(NulldataScript, 0), Output(CoinbaseScript(h), 30)>>)

BlockHash(h) == Hash32(200, h)

\* the block the chain source serves at height h during initial sync
BlockAt(h) ==
    generate_block(h, BlockHash(h),
        IF h = 0 THEN Hash32(0, 0) ELSE BlockHash(h - 1),
        IF h = 0 THEN <<CoinbaseTx(h)>>
        ELSE IF h % 2 = 1 THEN <<CoinbaseTx(h), SpendTx(h)>>
        ELSE <<CoinbaseTx(h), ChildTx(h), SpendTx(h)>>)

\* a block whose second transaction has no inputs: make_block_batches fails
MalformedBlockAt(h) ==
    generate_block(h, BlockHash(h), Hash32(0, 0),
        <<CoinbaseTx(h),
          generate_transaction(Hash32(4, h), h, <<>>, <<Output(generate_script(2), 1)>>)>>)

\* transactions users broadcast once the chain is synced: 1 spends the tip's
\* coinbase, 2 spends output 0 of 1; the hash of 2 sorts before the hash of 1
UserTxIds == {1, 2}
UserTxHash(u) == Hash32(IF u = 1 THEN 7 ELSE IF u = 2 THEN 6 ELSE 8, 0)
\* a transaction without inputs, for which no batch can be built
BadTxId == 3

UserTxParent(u) == IF u = 1 THEN 0 ELSE 1

\* block_height is 0 while the transaction is unconfirmed
UserTx(u, height) ==
    IF u = 1
    THEN generate_transaction(UserTxHash(1), height,
            <<Input(Hash32(1, Tip), U32BE(0), CoinbaseScript(Tip), 50)>>,
            <<Output(generate_script(3), 20), Output(CoinbaseScript(Tip), 30)>>)
    ELSE IF u = 2
    THEN generate_transaction(UserTxHash(2), height,
            <<Input(UserTxHash(1), U32BE(0), generate_script(3), 20)>>,
            <<Output(NulldataScript, 0), Output(P2shScript(3), 20)>>)
    ELSE generate_transaction(UserTxHash(u), height, <<>>,
            <<Output(generate_script(2), 1)>>)

\* canonical transaction order inside a block: ascending hash
CtorOrder == <<2, 1>>

\* the block a miner builds at height h from the mempool transactions in S
MinedBlock(h, previous_block, S) ==
    LET mask == (IF 1 \in S THEN 1 ELSE 0) + (IF 2 \in S THEN 2 ELSE 0)
        ids == SelectSeq(CtorOrder, LAMBDA u : u \in S)
    IN generate_block(h, Hash32(100 + mask, h), previous_block,
            <<CoinbaseTx(h)>> \o [i \in 1..Len(ids) |-> UserTx(ids[i], h)])

\* the store after the first n blocks of the chain were committed
RECURSIVE StoreAfter(_)
StoreAfter(n) ==
    IF n = 0 THEN EmptyDb
    ELSE db_write(StoreAfter(n - 1), make_block_batches(BlockAt(n - 1)).v.batch)

(***************************************************************************)
(* State.                                                                  *)
(***************************************************************************)
VARIABLES
    db,                     \* IndexDb: column family -> (key -> value)
    current_height_atomic,  \* the shared AtomicUsize the fetchers claim from
    watch_height,           \* watch channel: value, version, sender dropped
    chan,                   \* mpsc channel of BlockBatches: queue, receiver dropped
    fetchers,               \* index_thread tasks: pc, block_height, seen, batches
    commit,                 \* run_indexer_inner: pc, current_height, block_shelf
    resync,                 \* the running update_mempool call: pc, batch, next cf
    spawned,                \* live feeds spawned so far, in spawn order
    node,                   \* chain source: blocks mined above the sync chain, mempool
    feeds,                  \* live feeds: position of each loop, pending notifications
    hist                    \* history: what was applied, failures injected, resync races

vars == <<db, current_height_atomic, watch_height, chan, fetchers, commit,
          resync, spawned, node, feeds, hist>>

Threads == 1..NumThreads

\* number of faults (RPC errors, store errors, bad responses) injected per run
MaxTokenBlocks == 2
MaxFaults == 1

\* mpsc::channel(num_threads * 2)
ChannelCapacity == NumThreads * 2

Terminated(f) == fetchers[f].pc \in {"ok", "err", "panic"}

CanFault == hist.faults < MaxFaults

IdleResync == [pc |-> "idle", caller |-> "none", batch |-> <<>>, next_cf |-> 1]

\* no live feed spawned yet
NoFeeds == [blocks |-> [pc |-> "none", stream |-> <<>>],
            mempool |-> [pc |-> "none", stream |-> <<>>]]

(***************************************************************************)
(* Initial sync: run_indexer_inner up to the receive loop, with the store  *)
(* holding the first `n` blocks of the chain from an earlier run.          *)
(***************************************************************************)
InitSync(n) ==
    LET last_height == last_block_height(StoreAfter(n)) IN
    /\ db = StoreAfter(n)
    /\ current_height_atomic = last_height
    /\ watch_height = [value |-> last_height, version |-> 1, closed |-> FALSE]
    /\ chan = [queue |-> <<>>, closed |-> FALSE]
    /\ fetchers = [f \in Threads |->
                     [pc |-> "fetch_add", block_height |-> 0, seen |-> 0,
                      batches |-> <<>>, result |-> "running"]]
    /\ commit = [pc |-> "recv", current_height |-> last_height,
                 block_shelf |-> [h \in {} |-> 0]]
    /\ resync = IdleResync
    /\ spawned = <<>>
    /\ node = [chain |-> <<>>, mempool |-> {1}]
    /\ feeds = NoFeeds
    /\ hist = [start |-> last_height, applied |-> <<>>, faults |-> 0,
               failed_at |-> {}, skipped |-> {}, write_failed_at |-> {},
               initial_resyncs |-> 0, raced |-> FALSE, before_clear |-> EmptyDb,
               listed |-> {},
               committed |-> [h \in 0..(n - 1) |-> BlockAt(h)]]

Init == \E n \in 0..MaxStartBlocks : InitSync(n)

(***************************************************************************)
(* index_thread (one per fetcher).                                         *)
(***************************************************************************)
\* let block_height = current_height_atomic.fetch_add(1, SeqCst)
fetch_add(f) ==
    /\ fetchers[f].pc = "fetch_add"
    /\ fetchers' = [fetchers EXCEPT ![f].pc = "back_pressure",
                                    ![f].block_height = current_height_atomic]
    /\ current_height_atomic' = current_height_atomic + 1
    /\ UNCHANGED <<db, watch_height, chan, commit, resync, spawned, node, feeds, hist>>

\* index_thread without the back-pressure wait
back_pressure_off(f) ==
    /\ fetchers[f].pc = "back_pressure"
    /\ fetchers' = [fetchers EXCEPT ![f].pc = "get_block"]
    /\ UNCHANGED <<db, current_height_atomic, watch_height, chan, commit, resync,
                   spawned, node, feeds, hist>>

\* while *watch_height_receiver.borrow() + self.max_fetch_ahead < block_height
back_pressure(f) ==
    /\ fetchers[f].pc = "back_pressure"
    /\ fetchers' = [fetchers EXCEPT ![f].pc =
                        IF watch_height.value + MAX_FETCH_AHEAD < fetchers[f].block_height
                        THEN "watch_recv" ELSE "get_block"]
    /\ UNCHANGED <<db, current_height_atomic, watch_height, chan, commit, resync,
                   spawned, node, feeds, hist>>

\* watch_height_receiver.recv().await: completes at once the first time and
\* when the sender is gone, otherwise when a value this receiver has not seen
\* was broadcast
watch_recv(f) ==
    /\ fetchers[f].pc = "watch_recv"
    /\ watch_height.closed \/ fetchers[f].seen # watch_height.version
    /\ fetchers' = [fetchers EXCEPT ![f].pc = "back_pressure",
                                    ![f].seen = watch_height.version]
    /\ UNCHANGED <<db, current_height_atomic, watch_height, chan, commit, resync,
                   spawned, node, feeds, hist>>

\* what make_block_batches returns for each block the chain source can
\* answer with, computed once per height (the function is pure): entry h + 1
\* is the result for height h
RECURSIVE BatchesOfChain(_)
BatchesOfChain(n) ==
    IF n = 0 THEN <<>>
    ELSE Append(BatchesOfChain(n - 1), make_block_batches(BlockAt(n - 1)))

RECURSIVE BatchesOfMalformed(_)
BatchesOfMalformed(n) ==
    IF n = 0 THEN <<>>
    ELSE Append(BatchesOfMalformed(n - 1), make_block_batches(MalformedBlockAt(n - 1)))

ChainBatches == BatchesOfChain(Tip + 1)
MalformedBatches == BatchesOfMalformed(Tip + 1)

\* the body of `Ok(block)` with `Some(block)`: `batches` is the result of
\* make_block_batches(&block)
built(f, batches, faults) ==
    IF batches.ok
    THEN /\ fetchers' = [fetchers EXCEPT ![f].pc = "send", ![f].batches = batches.v]
         /\ hist' = [hist EXCEPT !.faults = @ + faults]
    ELSE /\ fetchers' = [fetchers EXCEPT ![f].pc =
                            IF batches = Panic THEN "panic" ELSE "err",
                                         ![f].result = batches.err]
         /\ hist' = [hist EXCEPT !.faults = @ + faults,
                                 !.failed_at = @ \cup {fetchers[f].block_height}]

\* bchd.get_block answers with the block of that height
get_block_ok(f) ==
    /\ fetchers[f].pc = "get_block"
    /\ fetchers[f].block_height <= Tip
    /\ built(f, ChainBatches[fetchers[f].block_height + 1], 0)
    /\ UNCHANGED <<db, current_height_atomic, watch_height, chan, commit, resync,
                   spawned, node, feeds>>

\* Err(err) if err.message() == "block not found"
get_block_not_found(f) ==
    /\ fetchers[f].pc = "get_block"
    /\ fetchers[f].block_height > Tip
    /\ fetchers' = [fetchers EXCEPT ![f].pc = "ok", ![f].result = "Ok"]
    /\ UNCHANGED <<db, current_height_atomic, watch_height, chan, commit, resync,
                   spawned, node, feeds, hist>>

\* any other Err(err): return Err(err.into())
get_block_error(f) ==
    /\ fetchers[f].pc = "get_block"
    /\ CanFault
    /\ fetchers' = [fetchers EXCEPT ![f].pc = "err", ![f].result = "rpc error"]
    /\ hist' = [hist EXCEPT !.faults = @ + 1,
                            !.failed_at = @ \cup {fetchers[f].block_height}]
    /\ UNCHANGED <<db, current_height_atomic, watch_height, chan, commit, resync,
                   spawned, node, feeds>>

\* Ok(block) whose transactions cannot be turned into a batch
get_block_malformed(f) ==
    /\ fetchers[f].pc = "get_block"
    /\ fetchers[f].block_height <= Tip
    /\ CanFault
    /\ built(f, MalformedBatches[fetchers[f].block_height + 1], 1)
    /\ UNCHANGED <<db, current_height_atomic, watch_height, chan, commit, resync,
                   spawned, node, feeds>>

\* Ok(response) with response.block = None: nothing is sent, the loop goes on
get_block_empty(f) ==
    /\ fetchers[f].pc = "get_block"
    /\ CanFault
    /\ fetchers' = [fetchers EXCEPT ![f].pc = "fetch_add"]
    /\ hist' = [hist EXCEPT !.faults = @ + 1,
                            !.skipped = @ \cup {fetchers[f].block_height}]
    /\ UNCHANGED <<db, current_height_atomic, watch_height, chan, commit, resync,
                   spawned, node, feeds>>

\* send_batches.send(batches).await: waits for room; fails once the receiver is gone
send_batches(f) ==
    /\ fetchers[f].pc = "send"
    /\ chan.closed \/ Len(chan.queue) < ChannelCapacity
    /\ chan' = IF chan.closed THEN chan
               ELSE [chan EXCEPT !.queue = Append(@, fetchers[f].batches)]
    /\ fetchers' = [fetchers EXCEPT ![f].pc = "fetch_add", ![f].batches = <<>>]
    /\ UNCHANGED <<db, current_height_atomic, watch_height, commit, resync,
                   spawned, node, feeds, hist>>

(***************************************************************************)
(* run_indexer_inner: the commit loop and the hand-over to the live feeds. *)
(***************************************************************************)
\* a broadcast that stores the value and wakes no receiver
broadcast_lost(watch, value) == [watch EXCEPT !.value = value]

\* watch_height_sender.broadcast(value): a new version every receiver will see
broadcast(watch, value) == [watch EXCEPT !.value = value, !.version = @ + 1]

\* run_indexer_inner returns Err: its receiver and its watch sender are dropped
return_err ==
    /\ commit' = [commit EXCEPT !.pc = "returned_err"]
    /\ chan' = [queue |-> <<>>, closed |-> TRUE]
    /\ watch_height' = [watch_height EXCEPT !.closed = TRUE]

\* receive_batches.recv().await yields a batch: block_shelf.insert(...)
recv_batches ==
    /\ commit.pc = "recv"
    /\ Len(chan.queue) > 0
    /\ LET block_batches == Head(chan.queue) IN
       commit' = [commit EXCEPT
                    !.pc = "drain",
                    !.block_shelf = Put(@, block_batches.block_height, block_batches)]
    /\ chan' = [chan EXCEPT !.queue = Tail(@)]
    /\ UNCHANGED <<db, current_height_atomic, watch_height, fetchers, resync,
                   spawned, node, feeds, hist>>

\* receive_batches.recv().await yields None: every sender was dropped
recv_closed ==
    /\ commit.pc = "recv"
    /\ Len(chan.queue) = 0
    /\ \A f \in Threads : Terminated(f)
    /\ commit' = [commit EXCEPT !.pc = "join"]
    /\ UNCHANGED <<db, current_height_atomic, watch_height, chan, fetchers, resync,
                   spawned, node, feeds, hist>>

\* a commit loop that applies whichever shelved batch it finds first
apply_block_batches_any ==
    /\ commit.pc = "drain"
    /\ \E h \in DOMAIN commit.block_shelf :
        LET block_batches == commit.block_shelf[h] IN
        /\ db' = db_write(db, block_batches.batch)
        /\ hist' = [hist EXCEPT
                     !.applied = Append(@, block_batches.block_height),
                     !.committed = Put(@, block_batches.block_height,
                                       BlockAt(block_batches.block_height))]
        /\ commit' = [commit EXCEPT !.current_height = h + 1,
                                    !.block_shelf = Delete(@, h)]
        /\ watch_height' = broadcast(watch_height, h + 1)
    /\ UNCHANGED <<current_height_atomic, chan, fetchers, resync, spawned, node, feeds>>

\* while block_shelf.contains_key(&current_height): remove, apply, advance, broadcast
apply_block_batches ==
    /\ commit.pc = "drain"
    /\ commit.current_height \in DOMAIN commit.block_shelf
    /\ LET block_batches == commit.block_shelf[commit.current_height] IN
       /\ db' = db_write(db, block_batches.batch)
       /\ hist' = [hist EXCEPT
                    !.applied = Append(@, block_batches.block_height),
                    !.committed = Put(@, block_batches.block_height,
                                      BlockAt(block_batches.block_height))]
    /\ commit' = [commit EXCEPT !.current_height = @ + 1,
                                !.block_shelf = Delete(@, commit.current_height)]
    /\ watch_height' = broadcast(watch_height, commit.current_height + 1)
    /\ UNCHANGED <<current_height_atomic, chan, fetchers, resync, spawned, node, feeds>>

\* a failing write that leaves the first row of the batch behind
apply_block_batches_err_partial ==
    /\ commit.pc = "drain"
    /\ commit.current_height \in DOMAIN commit.block_shelf
    /\ CanFault
    /\ return_err
    /\ db' = db_write(db, SubSeq(commit.block_shelf[commit.current_height].batch, 1, 1))
    /\ hist' = [hist EXCEPT !.faults = @ + 1,
                            !.write_failed_at = @ \cup {commit.current_height}]
    /\ UNCHANGED <<current_height_atomic, fetchers, resync, spawned, node, feeds>>

\* a commit loop that skips a batch it could not write and goes on
apply_block_batches_err_ignored ==
    /\ commit.pc = "drain"
    /\ commit.current_height \in DOMAIN commit.block_shelf
    /\ CanFault
    /\ commit' = [commit EXCEPT !.current_height = @ + 1,
                                !.block_shelf = Delete(@, commit.current_height)]
    /\ hist' = [hist EXCEPT !.faults = @ + 1,
                            !.write_failed_at = @ \cup {commit.current_height}]
    /\ UNCHANGED <<db, current_height_atomic, watch_height, chan, fetchers, resync,
                   spawned, node, feeds>>

\* self.db.apply_block_batches(block_batches)? fails: nothing is written
apply_block_batches_err ==
    /\ commit.pc = "drain"
    /\ commit.current_height \in DOMAIN commit.block_shelf
    /\ CanFault
    /\ return_err
    /\ hist' = [hist EXCEPT !.faults = @ + 1,
                            !.write_failed_at = @ \cup {commit.current_height}]
    /\ UNCHANGED <<db, current_height_atomic, fetchers, resync, spawned, node, feeds>>

\* the batch is written, more than 10 s have passed, and self.db.flush()? fails
flush_err ==
    /\ commit.pc = "drain"
    /\ commit.current_height \in DOMAIN commit.block_shelf
    /\ CanFault
    /\ LET block_batches == commit.block_shelf[commit.current_height] IN
       /\ db' = db_write(db, block_batches.batch)
       /\ hist' = [hist EXCEPT
                    !.applied = Append(@, block_batches.block_height),
                    !.committed = Put(@, block_batches.block_height,
                                      BlockAt(block_batches.block_height)),
                    !.faults = @ + 1]
    /\ return_err
    /\ UNCHANGED <<current_height_atomic, fetchers, resync, spawned, node, feeds>>

\* block_shelf does not hold current_height: back to recv
shelf_miss ==
    /\ commit.pc = "drain"
    /\ commit.current_height \notin DOMAIN commit.block_shelf
    /\ commit' = [commit EXCEPT !.pc = "recv"]
    /\ UNCHANGED <<db, current_height_atomic, watch_height, chan, fetchers, resync,
                   spawned, node, feeds, hist>>

\* a hand-over that does not look at the fetchers' results
join_handles_unchecked ==
    /\ commit.pc = "join"
    /\ commit' = [commit EXCEPT !.pc = "update_mempool"]
    /\ resync' = [resync EXCEPT !.pc = "get_mempool", !.caller = "run_indexer_inner"]
    /\ UNCHANGED <<db, current_height_atomic, watch_height, chan, fetchers, spawned,
                   node, feeds, hist>>

\* for handle in join_handles { handle.await??; }
join_handles ==
    /\ commit.pc = "join"
    /\ IF \E f \in Threads : fetchers[f].pc \in {"err", "panic"}
       THEN return_err /\ resync' = resync
       ELSE /\ commit' = [commit EXCEPT !.pc = "update_mempool"]
            /\ resync' = [IdleResync EXCEPT !.pc = "get_mempool",
                                            !.caller = "run_indexer_inner"]
            /\ UNCHANGED <<chan, watch_height>>
    /\ UNCHANGED <<db, current_height_atomic, fetchers, spawned, node, feeds, hist>>

(***************************************************************************)
(* update_mempool: list the node's mempool, build one batch, clear the     *)
(* eight mempool column families one by one, write the batch.  It is       *)
(* called by run_indexer_inner and by try_monitor_new_blocks.              *)
(***************************************************************************)
\* the caller's `update_mempool().await?` sees Err
resync_failed ==
    /\ resync' = IdleResync
    /\ IF resync.caller = "run_indexer_inner"
       THEN return_err /\ feeds' = feeds
       ELSE /\ feeds' = [feeds EXCEPT !.blocks = [pc |-> "subscribe", stream |-> <<>>]]
            /\ UNCHANGED <<commit, chan, watch_height>>

\* what bchd.get_mempool, make_mempool_txs and make_mempool_tx_batches yield
\* for the mempool S
mempool_batch_of(S) ==
    LET ids == SetToSeq(S)
    IN make_mempool_tx_batches([i \in 1..Len(ids) |-> UserTx(ids[i], 0)])

\* the same for every mempool the node can hold, computed once (the functions
\* are pure)
Mempools == SetToSeq(SUBSET (UserTxIds \cup {BadTxId}))

RECURSIVE BatchesOfMempools(_)
BatchesOfMempools(n) ==
    IF n = 0 THEN <<>>
    ELSE Append(BatchesOfMempools(n - 1), mempool_batch_of(Mempools[n]))

MempoolBatches == BatchesOfMempools(Len(Mempools))

\* bchd.get_mempool, make_mempool_txs, make_mempool_tx_batches
get_mempool ==
    /\ resync.pc = "get_mempool"
    /\ LET batch == MempoolBatches[CHOOSE i \in 1..Len(Mempools) :
                                       Mempools[i] = node.mempool]
       IN IF batch.ok
          THEN /\ resync' = [resync EXCEPT !.pc = "clear_mempool", !.batch = batch.v,
                                           !.next_cf = 1]
               /\ hist' = [hist EXCEPT !.listed = node.mempool]
               /\ UNCHANGED <<commit, chan, watch_height, feeds>>
          ELSE resync_failed /\ hist' = hist
    /\ UNCHANGED <<db, current_height_atomic, fetchers, spawned, node>>

\* bchd.get_mempool fails
get_mempool_err ==
    /\ resync.pc = "get_mempool"
    /\ CanFault
    /\ resync_failed
    /\ hist' = [hist EXCEPT !.faults = @ + 1]
    /\ UNCHANGED <<db, current_height_atomic, fetchers, spawned, node>>

\* one self.clear_cf(...) of clear_mempool
clear_mempool ==
    /\ resync.pc = "clear_mempool"
    /\ db' = clear_cf(db, ClearOrder[resync.next_cf])
    /\ resync' = IF resync.next_cf = Len(ClearOrder)
                 THEN [resync EXCEPT !.pc = "apply_batch"]
                 ELSE [resync EXCEPT !.next_cf = @ + 1]
    /\ hist' = IF resync.next_cf = 1 THEN [hist EXCEPT !.before_clear = db] ELSE hist
    /\ UNCHANGED <<current_height_atomic, watch_height, chan, fetchers, commit,
                   spawned, node, feeds>>

\* self.db.apply_batch(batch): update_mempool returns Ok to its caller
apply_mempool_batch ==
    /\ resync.pc = "apply_batch"
    /\ db' = db_write(db, resync.batch)
    /\ resync' = IdleResync
    /\ IF resync.caller = "run_indexer_inner"
       THEN /\ commit' = [commit EXCEPT !.pc = "spawn_monitor_new_blocks"]
            /\ hist' = [hist EXCEPT !.initial_resyncs = @ + 1, !.raced = FALSE,
                                    !.before_clear = EmptyDb, !.listed = {}]
            /\ feeds' = feeds
       ELSE /\ feeds' = [feeds EXCEPT !.blocks.pc = "stream"]
            /\ hist' = [hist EXCEPT !.raced = FALSE, !.before_clear = EmptyDb,
                                    !.listed = {}]
            /\ UNCHANGED commit
    /\ UNCHANGED <<current_height_atomic, watch_height, chan, fetchers, spawned, node>>

\* tokio::spawn(indexer.monitor_new_blocks())
spawn_monitor_new_blocks ==
    /\ commit.pc = "spawn_monitor_new_blocks"
    /\ commit' = [commit EXCEPT !.pc = "spawn_monitor_mempool"]
    /\ spawned' = Append(spawned, "monitor_new_blocks")
    /\ feeds' = [feeds EXCEPT !.blocks.pc = "subscribe"]
    /\ UNCHANGED <<db, current_height_atomic, watch_height, chan, fetchers, resync,
                   node, hist>>

\* tokio::spawn(indexer.monitor_mempool()); Ok(())
spawn_monitor_mempool ==
    /\ commit.pc = "spawn_monitor_mempool"
    /\ commit' = [commit EXCEPT !.pc = "returned_ok"]
    /\ spawned' = Append(spawned, "monitor_mempool")
    /\ feeds' = [feeds EXCEPT !.mempool.pc = "subscribe"]
    /\ watch_height' = [watch_height EXCEPT !.closed = TRUE]
    /\ chan' = [chan EXCEPT !.closed = TRUE]
    /\ UNCHANGED <<db, current_height_atomic, fetchers, resync, node, hist>>

Fetcher(f) ==
    \/ fetch_add(f) \/ back_pressure(f) \/ watch_recv(f)
    \/ get_block_ok(f) \/ get_block_not_found(f) \/ get_block_error(f)
    \/ get_block_malformed(f) \/ get_block_empty(f)
    \/ send_batches(f)

CommitLoop ==
    \/ recv_batches \/ recv_closed \/ apply_block_batches \/ apply_block_batches_err
    \/ flush_err \/ shelf_miss \/ join_handles
    \/ spawn_monitor_new_blocks \/ spawn_monitor_mempool

UpdateMempool ==
    \/ get_mempool \/ get_mempool_err \/ clear_mempool \/ apply_mempool_batch

Next ==
    \/ \E f \in Threads : Fetcher(f)
    \/ CommitLoop
    \/ UpdateMempool

\* the initial sync, from start-up to the hand-over to the live feeds
Spec == Init /\ [][Next]_vars

(***************************************************************************)
(* The node after the initial sync: users broadcast transactions, miners   *)
(* extend the chain; subscribed streams carry the notifications.           *)
(***************************************************************************)
Subscribed(feed) == feed.pc \in {"stream", "update_mempool"}

ConfirmedTxIds ==
    {u \in UserTxIds : \E i \in 1..Len(node.chain) : u \in node.chain[i].ids}

\* a user transaction enters the node's mempool once its parent output exists
node_accept_tx(u) ==
    /\ u \notin node.mempool \cup ConfirmedTxIds
    /\ UserTxParent(u) = 0 \/ UserTxParent(u) \in node.mempool \cup ConfirmedTxIds
    /\ node' = [node EXCEPT !.mempool = @ \cup {u}]
    /\ feeds' = IF Subscribed(feeds.mempool)
                THEN [feeds EXCEPT !.mempool.stream = Append(@, u)]
                ELSE feeds
    /\ UNCHANGED <<db, current_height_atomic, watch_height, chan, fetchers, commit,
                   resync, spawned, hist>>

\* a miner confirms the mempool transactions in S; parents come with children
node_mine_block(S) ==
    /\ Len(node.chain) < MaxLiveBlocks
    /\ \A u \in S : UserTxParent(u) = 0 \/ UserTxParent(u) \in S \cup ConfirmedTxIds
    /\ LET h == Tip + 1 + Len(node.chain)
           previous_block == IF Len(node.chain) = 0 THEN BlockHash(Tip)
                             ELSE node.chain[Len(node.chain)].block.info.v.hash
           mined == [ids |-> S, block |-> MinedBlock(h, previous_block, S)]
       IN /\ node' = [chain |-> Append(node.chain, mined), mempool |-> node.mempool \ S]
          /\ feeds' = IF Subscribed(feeds.blocks)
                      THEN [feeds EXCEPT !.blocks.stream = Append(@, mined.block)]
                      ELSE feeds
    /\ UNCHANGED <<db, current_height_atomic, watch_height, chan, fetchers, commit,
                   resync, spawned, hist>>

(***************************************************************************)
(* Live feeds: monitor_new_blocks and monitor_mempool.                     *)
(***************************************************************************)
\* bchd.subscribe_blocks(...).await? succeeds
subscribe_blocks ==
    /\ feeds.blocks.pc = "subscribe"
    /\ feeds' = [feeds EXCEPT !.blocks = [pc |-> "stream", stream |-> <<>>]]
    /\ UNCHANGED <<db, current_height_atomic, watch_height, chan, fetchers, commit,
                   resync, spawned, node, hist>>

\* one Block::MarshaledBlock notification: build, apply, then update_mempool
block_notification ==
    /\ feeds.blocks.pc = "stream"
    /\ Len(feeds.blocks.stream) > 0
    /\ LET block == Head(feeds.blocks.stream)
           batches == IF block.info.some THEN make_block_batches(block) ELSE Panic
       IN IF batches.ok
          THEN /\ db' = db_write(db, batches.v.batch)
               /\ hist' = [hist EXCEPT
                            !.applied = Append(@, batches.v.block_height),
                            !.committed = Put(@, batches.v.block_height, block)]
               /\ feeds' = [feeds EXCEPT !.blocks.pc = "update_mempool",
                                         !.blocks.stream = Tail(@)]
               /\ resync' = [IdleResync EXCEPT !.pc = "get_mempool",
                                               !.caller = "try_monitor_new_blocks"]
          ELSE /\ feeds' = [feeds EXCEPT !.blocks =
                              [pc |-> IF batches = Panic THEN "panic" ELSE "subscribe",
                               stream |-> <<>>]]
               /\ UNCHANGED <<db, hist, resync>>
    /\ UNCHANGED <<current_height_atomic, watch_height, chan, fetchers, commit,
                   spawned, node>>

\* the block stream ends or fails: monitor_new_blocks logs and subscribes again
block_stream_end ==
    /\ feeds.blocks.pc = "stream"
    /\ CanFault
    /\ feeds' = [feeds EXCEPT !.blocks = [pc |-> "subscribe", stream |-> <<>>]]
    /\ hist' = [hist EXCEPT !.faults = @ + 1]
    /\ UNCHANGED <<db, current_height_atomic, watch_height, chan, fetchers, commit,
                   resync, spawned, node>>

\* bchd.subscribe_transactions(...).await? succeeds
subscribe_transactions ==
    /\ feeds.mempool.pc = "subscribe"
    /\ feeds' = [feeds EXCEPT !.mempool = [pc |-> "stream", stream |-> <<>>]]
    /\ UNCHANGED <<db, current_height_atomic, watch_height, chan, fetchers, commit,
                   resync, spawned, node, hist>>

\* the running clear_mempool has emptied at least one column family and the
\* rebuilt batch is not written yet
ClearStarted ==
    \/ resync.pc = "clear_mempool" /\ resync.next_cf > 1
    \/ resync.pc = "apply_batch"

\* one UnconfirmedTransaction notification: a single-transaction mempool batch
tx_notification ==
    /\ feeds.mempool.pc = "stream"
    /\ Len(feeds.mempool.stream) > 0
    /\ LET batch == make_mempool_tx_batches(<<UserTx(Head(feeds.mempool.stream), 0)>>)
       IN IF batch.ok
          THEN /\ db' = db_write(db, batch.v)
               /\ feeds' = [feeds EXCEPT !.mempool.stream = Tail(@)]
               /\ hist' = IF ClearStarted THEN [hist EXCEPT !.raced = TRUE] ELSE hist
          ELSE /\ feeds' = [feeds EXCEPT !.mempool = [pc |-> "subscribe", stream |-> <<>>]]
               /\ UNCHANGED <<db, hist>>
    /\ UNCHANGED <<current_height_atomic, watch_height, chan, fetchers, commit,
                   resync, spawned, node>>

\* the transaction stream ends or fails: monitor_mempool subscribes again
tx_stream_end ==
    /\ feeds.mempool.pc = "stream"
    /\ CanFault
    /\ feeds' = [feeds EXCEPT !.mempool = [pc |-> "subscribe", stream |-> <<>>]]
    /\ hist' = [hist EXCEPT !.faults = @ + 1]
    /\ UNCHANGED <<db, current_height_atomic, watch_height, chan, fetchers, commit,
                   resync, spawned, node>>

Node ==
    \/ \E u \in UserTxIds : node_accept_tx(u)
    \/ \E S \in SUBSET (node.mempool \cap UserTxIds) : node_mine_block(S)

LiveFeeds ==
    \/ subscribe_blocks \/ block_notification \/ block_stream_end
    \/ subscribe_transactions \/ tx_notification \/ tx_stream_end

\* the state in which the receive loop of the initial sync has just ended:
\* every block up to Tip committed, every fetcher returned Ok
StoreInit ==
    /\ db = StoreAfter(Tip + 1)
    /\ current_height_atomic = Tip + 1 + NumThreads
    /\ watch_height = [value |-> Tip + 1, version |-> Tip + 2, closed |-> FALSE]
    /\ chan = [queue |-> <<>>, closed |-> FALSE]
    /\ fetchers = [f \in Threads |->
                     [pc |-> "ok", block_height |-> Tip + f, seen |-> 0,
                      batches |-> <<>>, result |-> "Ok"]]
    /\ commit = [pc |-> "recv", current_height |-> Tip + 1,
                 block_shelf |-> [h \in {} |-> 0]]
    /\ resync = IdleResync
    /\ spawned = <<>>
    /\ node = [chain |-> <<>>, mempool |-> {1}]
    /\ feeds = NoFeeds
    /\ hist = [start |-> 0, applied |-> [i \in 1..(Tip + 1) |-> i - 1], faults |-> 0,
               failed_at |-> {}, skipped |-> {}, write_failed_at |-> {},
               initial_resyncs |-> 0, raced |-> FALSE, before_clear |-> EmptyDb,
               listed |-> {},
               committed |-> [h \in 0..Tip |-> BlockAt(h)]]

StoreNext ==
    \/ recv_closed \/ join_handles
    \/ spawn_monitor_new_blocks \/ spawn_monitor_mempool
    \/ UpdateMempool
    \/ Node
    \/ LiveFeeds

\* the store from the end of the initial sync on: hand-over and live feeds
StoreSpec == StoreInit /\ [][StoreNext]_vars

(***************************************************************************)
(* A node whose notifications can be malformed: a block without info, a    *)
(* block holding a transaction without inputs, a mempool transaction       *)
(* without inputs.                                                         *)
(***************************************************************************)
MalformedBlocks ==
    {[info |-> None, transaction_data |-> <<>>], MalformedBlockAt(Tip + 1)}

\* the block stream delivers a malformed block
node_malformed_block(block) ==
    /\ feeds.blocks.pc = "stream"
    /\ \A i \in 1..Len(feeds.blocks.stream) : feeds.blocks.stream[i] \notin MalformedBlocks
    /\ feeds' = [feeds EXCEPT !.blocks.stream = Append(@, block)]
    /\ UNCHANGED <<db, current_height_atomic, watch_height, chan, fetchers, commit,
                   resync, spawned, node, hist>>

\* the node lists, and announces to subscribers, a transaction without inputs
node_accept_bad_tx ==
    /\ BadTxId \notin node.mempool
    /\ node' = [node EXCEPT !.mempool = @ \cup {BadTxId}]
    /\ feeds' = IF Subscribed(feeds.mempool)
                THEN [feeds EXCEPT !.mempool.stream = Append(@, BadTxId)]
                ELSE feeds
    /\ UNCHANGED <<db, current_height_atomic, watch_height, chan, fetchers, commit,
                   resync, spawned, hist>>

FeedNext ==
    \/ StoreNext
    \/ \E block \in MalformedBlocks : node_malformed_block(block)
    \/ node_accept_bad_tx

\* the live feeds against a node that can send malformed notifications
FeedSpec == StoreInit /\ [][FeedNext]_vars

(***************************************************************************)
(* Blocks with SLP transactions.  A node answer carries, per transaction,  *)
(* an optional SlpTransactionInfo (validity judgement, action, token id,   *)
(* genesis metadata) and a token amount on inputs and outputs.             *)
(***************************************************************************)
SlpActions ==
    {"NonSlp", "NonSlpBurn", "SlpParseError", "SlpUnsupportedVersion"}
    \cup SupportedSlpActions

TokenX == Hash32(88, 0)

GenesisMetadata(kind) ==
    [kind |-> kind, ticker |-> <<84>>, name |-> <<78>>, document_url |-> <<>>,
     document_hash |-> <<>>, decimals |-> 2, group_token_id |-> Hash32(89, 0)]

\* token amounts (sum over the inputs, sum over the outputs) of a transaction
TokenAmounts == {<<0, 0>>, <<700, 700>>}

SlpInfos ==
    {None} \cup
    {Some([validity_judgement |-> v, slp_action |-> a, token_id |-> id,
           tx_metadata |-> md]) :
        v \in {"Valid", "UnknownOrInvalid"}, a \in SlpActions,
        id \in {<<>>, TokenX},
        md \in {None, Some(GenesisMetadata("V1Genesis")),
                Some(GenesisMetadata("V1Nft1ChildGenesis"))}}

SlpToken(amount) ==
    IF amount = 0 THEN None ELSE Some([token_id |-> TokenX, amount |-> amount])

\* a transaction that spends 50 of address (P2PKH, 2) and pays 30 to address
\* (P2PKH, 3); it pays 10 back to the sender only when it forwards the tokens
TokenTx(h, info, amounts) ==
    [hash |-> Hash32(5, h),
     inputs |-> <<[outpoint |-> Some([hash |-> Hash32(4, h), index |-> U32BE(0)]),
                   signature_script |-> <<>>, previous_script |-> generate_script(2),
                   value |-> 50, slp_token |-> SlpToken(amounts[1])]>>,
     outputs |-> <<[pubkey_script |-> generate_script(3), value |-> 30,
                    slp_token |-> SlpToken(amounts[2])]>>
                 \o (IF amounts[2] > 0 THEN <<Output(generate_script(2), 10)>> ELSE <<>>),
     size |-> 100, timestamp |-> 1000 + h, block_height |-> h,
     slp_transaction_info |-> info]

\* make_block_batches and apply_block_batches for the next block of a chain
\* whose blocks hold a coinbase and one transaction of the node's choice
token_block(info, amounts) ==
    /\ Len(node.chain) < MaxTokenBlocks
    /\ LET h == Len(node.chain)
           block == generate_block(h, Hash32(150, h),
                        IF h = 0 THEN Hash32(0, 0) ELSE Hash32(150, h - 1),
                        <<CoinbaseTx(h), TokenTx(h, info, amounts)>>)
           batches == make_block_batches(block)
       IN /\ node' = [node EXCEPT !.chain = Append(@, [ids |-> {}, block |-> block])]
          /\ IF batches.ok
             THEN /\ db' = db_write(db, batches.v.batch)
                  /\ hist' = [hist EXCEPT !.applied = Append(@, h),
                                          !.committed = Put(@, h, block)]
             ELSE /\ db' = db
                  /\ hist' = [hist EXCEPT !.failed_at = @ \cup {h}]
    /\ UNCHANGED <<current_height_atomic, watch_height, chan, fetchers, commit,
                   resync, spawned, feeds>>

TokenInit ==
    /\ db = EmptyDb
    /\ current_height_atomic = 0
    /\ watch_height = [value |-> 0, version |-> 1, closed |-> FALSE]
    /\ chan = [queue |-> <<>>, closed |-> FALSE]
    /\ fetchers = [f \in Threads |->
                     [pc |-> "ok", block_height |-> 0, seen |-> 0,
                      batches |-> <<>>, result |-> "Ok"]]
    /\ commit = [pc |-> "returned_ok", current_height |-> 0,
                 block_shelf |-> [h \in {} |-> 0]]
    /\ resync = IdleResync
    /\ spawned = <<>>
    /\ node = [chain |-> <<>>, mempool |-> {}]
    /\ feeds = NoFeeds
    /\ hist = [start |-> 0, applied |-> <<>>, faults |-> 0,
               failed_at |-> {}, skipped |-> {}, write_failed_at |-> {},
               initial_resyncs |-> 0, raced |-> FALSE, before_clear |-> EmptyDb,
               listed |-> {}, committed |-> [h \in {} |-> 0]]

TokenNext == \E info \in SlpInfos : \E amounts \in TokenAmounts : token_block(info, amounts)

\* the index under block commits whose transactions carry SLP data
TokenSpec == TokenInit /\ [][TokenNext]_vars

\* the initial sync under the runtime's scheduling: every task that can take
\* a step eventually takes one
LiveSpec ==
    /\ Init /\ [][Next]_vars
    /\ \A f \in Threads : WF_vars(Fetcher(f))
    /\ WF_vars(CommitLoop)
    /\ WF_vars(UpdateMempool)

(***************************************************************************)
(* Properties.                                                             *)
(***************************************************************************)
AllTerminated == \A f \in Threads : Terminated(f)
AllOk == \A f \in Threads : fetchers[f].pc = "ok"
Returned == commit.pc \in {"returned_ok", "returned_err"}
BothFeeds == <<"monitor_new_blocks", "monitor_mempool">>

\* C1: the commit loop applies the batches in strictly increasing height
\* order, starting at the start height, skipping none and repeating none,
\* whatever the order in which the fetchers deliver them.
C1_InOrderCommit ==
    hist.applied = [i \in 1..Len(hist.applied) |-> hist.start + i - 1]

\* C1 witness: a batch waited on the shelf for a lower height and was applied.
C1_Witness ==
    /\ Len(hist.applied) >= 2
    /\ \E h \in DOMAIN commit.block_shelf : h > commit.current_height

\* C2: once a fetcher has failed at a height g, eventually every fetcher has
\* terminated and run_indexer has returned, having applied only heights
\* below g.
C2_FailureStopsSync ==
    (hist.failed_at # {})
        ~> (/\ AllTerminated
            /\ commit.pc = "returned_err"
            /\ \A g \in hist.failed_at :
                 \A i \in 1..Len(hist.applied) : hist.applied[i] < g)

\* C3: when the chain source and the store never fail, the initial sync
\* eventually has committed every height from the start height through Tip,
\* every fetcher has returned Ok and the receive loop has ended.
SyncComplete ==
    /\ hist.applied = [i \in 1..(Tip + 1 - hist.start) |-> hist.start + i - 1]
    /\ AllOk
    /\ commit.pc \notin {"recv", "drain"}

C3_SyncTerminates == <>(hist.faults > 0 \/ SyncComplete)

\* C3 witness: the sync completed without a fault after a fetcher had to wait
\* for the commit loop (its receiver saw a broadcast).
C3_Witness ==
    /\ hist.faults = 0
    /\ SyncComplete
    /\ \E f \in Threads : fetchers[f].seen > 1

\* C4 as claimed: whenever all fetchers have terminated and the queue has
\* drained, run_indexer has, on return, run one resync and spawned both feeds.
C4_Original ==
    (AllTerminated /\ Len(chan.queue) = 0 /\ Returned)
        => (hist.initial_resyncs = 1 /\ spawned = BothFeeds)

\* C4 as amended: the resync and the spawns happen only when every fetcher
\* returned Ok; then one resync runs, and when it succeeds the new-block loop
\* is spawned first and the mempool loop second; when a fetcher or the resync
\* failed, nothing is spawned.
C4_HandOver ==
    /\ [](/\ hist.initial_resyncs <= 1
          /\ (resync.pc # "idle" => AllOk /\ Len(chan.queue) = 0)
          /\ (Len(spawned) > 0 => /\ hist.initial_resyncs = 1
                                  /\ AllOk
                                  /\ spawned[1] = "monitor_new_blocks")
          /\ (commit.pc = "returned_ok" => spawned = BothFeeds)
          /\ (commit.pc = "returned_err" => spawned = <<>>))
    /\ (commit.pc = "join" /\ AllOk) ~> (hist.faults > 0 \/ commit.pc = "returned_ok")

\* C4 witness: run_indexer returned Ok with both feeds spawned.
C4_Witness == commit.pc = "returned_ok" /\ spawned = BothFeeds

\* C5 as claimed: no fetcher requests a height above committed_height +
\* MAX_FETCH_AHEAD (committed_height being the watch channel's value), no such
\* height is on the shelf, and the shelf holds at most MAX_FETCH_AHEAD batches.
WithinWindow ==
    /\ \A f \in Threads :
          fetchers[f].pc = "get_block"
              => fetchers[f].block_height <= watch_height.value + MAX_FETCH_AHEAD
    /\ \A h \in DOMAIN commit.block_shelf : h <= watch_height.value + MAX_FETCH_AHEAD

C5_Original ==
    /\ WithinWindow
    /\ Cardinality(DOMAIN commit.block_shelf) <= MAX_FETCH_AHEAD

\* C5 as amended: the same window, and the shelf holds at most
\* MAX_FETCH_AHEAD + 1 batches (the heights committed_height ..
\* committed_height + MAX_FETCH_AHEAD, just after an insert).
C5_BackPressure ==
    /\ WithinWindow
    /\ Cardinality(DOMAIN commit.block_shelf) <= MAX_FETCH_AHEAD + 1

\* C5 witness: a fetcher is held back while the shelf holds the last height
\* of the window.
C5_Witness ==
    /\ \E f \in Threads : fetchers[f].pc = "watch_recv"
    /\ watch_height.value + MAX_FETCH_AHEAD \in DOMAIN commit.block_shelf

\* C6: a block batch is never partially applied: a step either leaves the
\* confirmed column families as they are, or writes every row that
\* make_block_batches produces for the block of the commit loop's height and
\* counts that height as applied; and no height at or above one whose batch
\* could not be built or written is ever applied.
ConfirmedPart(d) == [cf \in ConfirmedCfs |-> d[cf]]

WholeBatchStep ==
    \/ /\ ConfirmedPart(db') = ConfirmedPart(db)
       /\ hist'.applied = hist.applied
    \/ /\ commit.current_height <= Tip
       /\ ChainBatches[commit.current_height + 1].ok
       /\ db' = db_write(db, ChainBatches[commit.current_height + 1].v.batch)
       /\ hist'.applied = Append(hist.applied, commit.current_height)

C6_WholeBatch ==
    /\ [][WholeBatchStep]_vars
    /\ [](\A g \in hist.failed_at \cup hist.write_failed_at :
            \A i \in 1..Len(hist.applied) : hist.applied[i] < g)

\* C6 witness: a batch could not be built for a height above one that was
\* applied in full.
C6_Witness ==
    /\ Len(hist.applied) >= 1
    /\ \E f \in Threads :
          /\ fetchers[f].result = "No input"
          /\ fetchers[f].block_height > hist.applied[Len(hist.applied)]
    /\ db # EmptyDb

\* C7: for every outpoint k, utxo(k) is absent when mempool_utxo_set_remove
\* holds k, else the row of mempool_utxo_set_add when it holds k, else the
\* row of utxo_set, else absent.
OutpointKeys ==
    DOMAIN db["utxo_set"] \cup DOMAIN db["mempool_utxo_set_add"]
        \cup DOMAIN db["mempool_utxo_set_remove"]
        \cup {UtxoKey(Hash32(9, 9), U32BE(0))}

C7_Overlay ==
    \A k \in OutpointKeys :
        utxo(db, k) =
            IF k \in DOMAIN db["mempool_utxo_set_remove"] THEN None
            ELSE IF k \in DOMAIN db["mempool_utxo_set_add"]
                 THEN Some(db["mempool_utxo_set_add"][k])
            ELSE IF k \in DOMAIN db["utxo_set"] THEN Some(db["utxo_set"][k])
            ELSE None

\* C7 witness: the remove overlay hides a confirmed row and a mempool row,
\* and the add overlay shows a row the confirmed set lacks.
C7_Witness ==
    /\ \E k \in DOMAIN db["mempool_utxo_set_remove"] : k \in DOMAIN db["utxo_set"]
    /\ \E k \in DOMAIN db["mempool_utxo_set_remove"] : k \in DOMAIN db["mempool_utxo_set_add"]
    /\ \E k \in DOMAIN db["mempool_utxo_set_add"] :
          /\ k \notin DOMAIN db["mempool_utxo_set_remove"]
          /\ k \notin DOMAIN db["utxo_set"]

\* the transactions of a block
TxsOf(block) ==
    {block.transaction_data[i].tx : i \in 1..Len(block.transaction_data)}

\* C8: for every output (T, i) of every committed transaction exactly one of
\* the two holds: utxo_set has a row for (T, i), or tx_out_spend has one.
C8_UnspentXorSpent ==
    \A c \in UNION {{[tx |-> tx, i |-> i] : i \in 1..Len(tx.outputs)} :
                        tx \in UNION {TxsOf(hist.committed[h]) : h \in DOMAIN hist.committed}} :
        LET k == UtxoKey(c.tx.hash, U32BE(c.i - 1))
        IN (k \in DOMAIN db["utxo_set"]) # (k \in DOMAIN db["tx_out_spend"])

\* C8 witness: the new-block loop committed a block in which one transaction
\* spends an output of another transaction of the same block.
C8_Witness ==
    \E h \in DOMAIN hist.committed :
        /\ h > Tip
        /\ \E t1, t2 \in TxsOf(hist.committed[h]) :
              \E i \in 1..Len(t2.inputs) : t2.inputs[i].outpoint.v.hash = t1.hash

\* C9: for every committed transaction T at height h, addr_tx_meta holds the
\* row (A.type, A.hash20, h, T.hash) exactly for the addresses A whose
\* pay-to-public-key-hash or pay-to-script-hash script is an input's
\* previous_script or an output's pubkey_script of T, and holds no other row.
AddrSpace == {P2PKH, P2SH} \X {1, 2, 3}

ScriptOfAddr(a) == IF a[1] = P2PKH THEN generate_script(a[2]) ELSE P2shScript(a[2])

AddressesOf(tx) ==
    {a \in AddrSpace :
        \/ \E i \in 1..Len(tx.inputs) : tx.inputs[i].previous_script = ScriptOfAddr(a)
        \/ \E i \in 1..Len(tx.outputs) : tx.outputs[i].pubkey_script = ScriptOfAddr(a)}

C9_AddrTxRows ==
    /\ \A h \in DOMAIN hist.committed : \A tx \in TxsOf(hist.committed[h]) :
          \A a \in AddrSpace :
              (AddrTxKey(a[1], Hash20(a[2]), h, tx.hash) \in DOMAIN db["addr_tx_meta"])
                  <=> (a \in AddressesOf(tx))
    /\ \A k \in DOMAIN db["addr_tx_meta"] :
          \E h \in DOMAIN hist.committed : \E tx \in TxsOf(hist.committed[h]) :
              \E a \in AddressesOf(tx) : k = AddrTxKey(a[1], Hash20(a[2]), h, tx.hash)

\* C9 witness: the new-block loop committed a block whose only transaction is
\* the coinbase, and one whose transaction has an address on both sides.
C9_Witness ==
    /\ \E h \in DOMAIN hist.committed :
          h > Tip /\ Len(hist.committed[h].transaction_data) = 1
    /\ \E h \in DOMAIN hist.committed : \E tx \in TxsOf(hist.committed[h]) :
          /\ h > Tip
          /\ \E a \in AddrSpace :
                /\ \E i \in 1..Len(tx.inputs) : tx.inputs[i].previous_script = ScriptOfAddr(a)
                /\ \E i \in 1..Len(tx.outputs) : tx.outputs[i].pubkey_script = ScriptOfAddr(a)

\* C10: for every committed height h, block_hash_at(h) is the hash of the
\* block whose batch was applied for h, and block_meta of that hash exists
\* with height h.
C10_HeightIndex ==
    \A h \in DOMAIN hist.committed :
        LET block_hash == hist.committed[h].info.v.hash IN
        /\ block_hash_at(db, h) = Some(block_hash)
        /\ block_meta(db, block_hash).some
        /\ block_meta(db, block_hash).v.height = h

\* C10 witness: heights committed by the initial sync and by the new-block
\* loop are both in the store.
C10_Witness ==
    /\ Tip \in DOMAIN hist.committed
    /\ Tip + MaxLiveBlocks \in DOMAIN hist.committed

\* the rows of address a in a column family keyed by AddrTxKey, ascending
RowsOf(d, cf, a) ==
    SortedKeys({k \in DOMAIN d[cf] : addr_of(k) = AddrKeyPrefix(a[1], Hash20(a[2]))})

Reverse(s) == [i \in 1..Len(s) |-> s[Len(s) + 1 - i]]

\* the sequence L of the pagination contract: mempool rows ascending, then
\* confirmed rows descending
AddressListing(d, a) ==
    LET mrows == RowsOf(d, "mempool_addr_tx_meta", a)
        crows == Reverse(RowsOf(d, "addr_tx_meta", a))
    IN [i \in 1..Len(mrows) |-> [cf |-> "mempool_addr_tx_meta", key |-> mrows[i]]]
       \o [i \in 1..Len(crows) |-> [cf |-> "addr_tx_meta", key |-> crows[i]]]

Page(d, a, skip, take) ==
    LET L == AddressListing(d, a)
        last == IF skip + take > Len(L) THEN Len(L) ELSE skip + take
        rows == SubSeq(L, skip + 1, last)
    IN collect([i \in 1..Len(rows) |-> address_entry(d, d, rows[i].cf, rows[i].key)])

ConfirmedOnly(d) == [cf \in DOMAIN d |-> IF cf \in MempoolCfs THEN EmptyCf ELSE d[cf]]

\* C11: for every address, skip and take, address(A, skip, take) is elements
\* [skip, skip + take) of L = A's mempool rows ascending followed by A's
\* confirmed rows descending.
C11_Pagination ==
    \A a \in AddrSpace : \A skip \in 0..MaxSkip : \A take \in 0..MaxTake :
        \A prev_on_invalid \in PrevOnInvalid :
            address(db, a[1], Hash20(a[2]), skip, take, prev_on_invalid)
                = Page(db, a, skip, take)

\* C12: when A has confirmed rows and no mempool row, address(A, 0, take)
\* returns all of them newest first, also when A's prefix is the greatest in
\* addr_tx_meta.
C12_NewestFirst ==
    \A a \in AddrSpace : \A prev_on_invalid \in PrevOnInvalid :
        LET rows == RowsOf(db, "addr_tx_meta", a) IN
        Len(rows) > 0 =>
            address(ConfirmedOnly(db), a[1], Hash20(a[2]), 0, Len(rows), prev_on_invalid)
                = Page(ConfirmedOnly(db), a, 0, Len(rows))

\* every transaction hash of the model and one that is in no block
TxHashSpace ==
    {Hash32(0, 0), Hash32(9, 9)} \cup {UserTxHash(u) : u \in UserTxIds}
    \cup {Hash32(n, h) : n \in 1..3, h \in 0..(Tip + MaxLiveBlocks)}

\* every out-index a key of the model carries, and one that none carries
OutIdxSpace == {U32BE(0), U32BE(1), U32BE(2), <<255, 255, 255, 255>>}

OutpointSpace == {UtxoKey(T, U32BE(i)) : T \in TxHashSpace, i \in 0..2}

\* the distinct outpoints with an (A, k) row in mempool_addr_utxo_add or addr_utxo
OutpointsOf(d, a) ==
    {utxo_key_of(key) : key \in
        {k \in DOMAIN d["mempool_addr_utxo_add"] \cup DOMAIN d["addr_utxo"] :
            addr_of(k) = AddrKeyPrefix(a[1], Hash20(a[2]))}}

SumOver(S, amount(_)) ==
    LET seq == SetToSeq(S) IN SumSeq([i \in 1..Len(seq) |-> amount(seq[i])])

\* C13: address_balance(A) holds, per token id, the sums of sats and token
\* amounts over the distinct outpoints of A that the overlay utxo() reports
\* present; the None bucket is always there.
C13_Balance ==
    \A a \in AddrSpace :
        LET balance == address_balance(db, a[1], Hash20(a[2]))
            live == {k \in OutpointsOf(db, a) : utxo(db, k).some}
            tokens == {None} \cup {utxo(db, k).v.token_id : k \in live}
            of(t) == {k \in live : utxo(db, k).v.token_id = t}
            sats(k) == utxo(db, k).v.sats_amount
            amount(k) == utxo(db, k).v.token_amount
        IN /\ DOMAIN balance.balances = tokens
           /\ DOMAIN balance.utxos = tokens
           /\ \A t \in tokens :
                balance.balances[t] = <<SumOver(of(t), sats), SumOver(of(t), amount)>>

HasRow(d, cfs, T, i) == \E cf \in cfs : \E k \in DOMAIN d[cf] :
    SubSeq(k, 1, 32) = T /\ out_idx_of(k) = i

\* C14: tx_out_spends(T) maps i to Some(spender) iff (T, i) has a spend row,
\* to None iff it has an unspent row and no spend row, and holds no other index.
C14_TxOutSpends ==
    \A T \in TxHashSpace :
        LET spends == tx_out_spends(db, T) IN
        \A i \in OutIdxSpace \cup DOMAIN spends :
            LET spent == HasRow(db, {"tx_out_spend", "mempool_tx_out_spend"}, T, i)
                unspent == HasRow(db, {"utxo_set", "mempool_utxo_set_add"}, T, i)
            IN /\ (i \in DOMAIN spends /\ spends[i].some) <=> spent
               /\ (i \in DOMAIN spends /\ ~spends[i].some) <=> (unspent /\ ~spent)
               /\ spent /\ get_cf(db, "tx_out_spend", UtxoKey(T, i)).some
                    => spends[i] = get_cf(db, "tx_out_spend", UtxoKey(T, i))

\* a transaction of the confirmed layer spends the outpoint and a mempool
\* transaction does too, or the reverse; both rows and the mempool's hiding row
C14_Witness ==
    \E T \in TxHashSpace :
        LET spends == tx_out_spends(db, T) IN
        /\ \E i \in DOMAIN spends :
            /\ spends[i].some
            /\ HasRow(db, {"utxo_set"}, T, i)
            /\ HasRow(db, {"mempool_tx_out_spend"}, T, i)
        /\ \E U \in TxHashSpace : \E j \in DOMAIN tx_out_spends(db, U) :
            /\ tx_out_spends(db, U)[j] = None
            /\ HasRow(db, {"mempool_utxo_set_add"}, U, j)

\* no writer is inside a handler
Quiescent == resync.pc = "idle" /\ feeds.blocks.pc # "update_mempool"

\* the store is the blocks 0, 1, 2, ... committed in order, followed by the
\* mempool batches of transactions that no committed block contains
BuiltInOrder ==
    \E i \in 1..Len(Mempools) :
        /\ \A h \in 1..Len(hist.applied) : hist.applied[h] = h - 1
        /\ \A u \in Mempools[i] : ~get_cf(db, "tx_meta", UserTxHash(u)).some
        /\ MempoolBatches[i].ok
        /\ db = db_write(ConfirmedOnly(db), MempoolBatches[i].v)

\* C15: in a quiescent store built by block commits followed by mempool
\* batches, utxo(T, i) present implies tx_out_spends(T)[i] is None, and
\* tx_out_spends(T)[i] = Some(spender) implies utxo(T, i) absent.
C15_ViewsAgree ==
    Quiescent /\ BuiltInOrder =>
        \A T \in TxHashSpace : \A i \in OutIdxSpace :
            LET spends == tx_out_spends(db, T)
                u == utxo(db, UtxoKey(T, i))
            IN /\ u.some => i \in DOMAIN spends /\ spends[i] = None
               /\ (i \in DOMAIN spends /\ spends[i].some) => ~u.some

\* a confirmed output spent by a mempool transaction: its utxo_set row is
\* still there, utxo() hides it and tx_out_spends names the mempool spender
C15_Witness ==
    /\ Quiescent /\ BuiltInOrder
    /\ \E T \in TxHashSpace : \E i \in OutIdxSpace :
        /\ get_cf(db, "utxo_set", UtxoKey(T, i)).some
        /\ get_cf(db, "mempool_tx_out_spend", UtxoKey(T, i)).some
        /\ ~utxo(db, UtxoKey(T, i)).some
        /\ tx_out_spends(db, T)[i] = get_cf(db, "mempool_tx_out_spend", UtxoKey(T, i))
    /\ \E T \in TxHashSpace : \E i \in OutIdxSpace :
        /\ get_cf(db, "mempool_utxo_set_add", UtxoKey(T, i)).some
        /\ utxo(db, UtxoKey(T, i)).some

\* the confirmed layer: what the first n block commits of the run wrote
RECURSIVE CommittedStore(_)
CommittedStore(n) ==
    IF n = 0 THEN EmptyDb
    ELSE db_write(CommittedStore(n - 1),
                  make_block_batches(hist.committed[hist.applied[n]]).v.batch)

\* clear_mempool has returned, the rebuilt batch is not written yet, and no
\* mempool batch was written while clear_mempool ran
ClearDone == resync.pc = "apply_batch" /\ ~hist.raced

\* every overlay query gives the same answer on the stores d and e
SameAnswers(d, e) ==
    /\ \A k \in OutpointSpace : utxo(d, k) = utxo(e, k)
    /\ \A T \in TxHashSpace :
        /\ tx_meta(d, T) = tx_meta(e, T)
        /\ token_meta(d, T) = token_meta(e, T)
        /\ tx_out_spends(d, T) = tx_out_spends(e, T)
    /\ \A a \in AddrSpace :
        /\ address_num_txs(d, a[1], Hash20(a[2])) = address_num_txs(e, a[1], Hash20(a[2]))
        /\ address_balance(d, a[1], Hash20(a[2])) = address_balance(e, a[1], Hash20(a[2]))
        /\ \A skip \in 0..1 : \A prev_on_invalid \in PrevOnInvalid :
            address(d, a[1], Hash20(a[2]), skip, MaxTake, prev_on_invalid)
                = address(e, a[1], Hash20(a[2]), skip, MaxTake, prev_on_invalid)

\* C16: when clear_mempool has run after any mempool batches, the eight
\* mempool column families are empty and every overlay query answers as it
\* does on the confirmed layer the block commits built.
C16_ClearRestores ==
    ClearDone =>
        /\ \A cf \in MempoolCfs : db[cf] = EmptyCf
        /\ SameAnswers(db, CommittedStore(Len(hist.applied)))

\* before the clear a mempool transaction hid a confirmed output; after it the
\* output is returned again and the transaction is gone
C16_Witness ==
    /\ ClearDone
    /\ \E k \in OutpointSpace :
        /\ get_cf(hist.before_clear, "utxo_set", k).some
        /\ ~utxo(hist.before_clear, k).some
        /\ utxo(db, k) = get_cf(db, "utxo_set", k)
        /\ utxo(db, k).some
    /\ \E u \in UserTxIds :
        /\ tx_meta(hist.before_clear, UserTxHash(u)).some
        /\ ~tx_meta(db, UserTxHash(u)).some

\* the step handles one transaction notification
TxStep ==
    /\ feeds.mempool.pc = "stream" /\ feeds'.mempool.pc = "stream"
    /\ Len(feeds'.mempool.stream) < Len(feeds.mempool.stream)

\* the step is one clear_cf of clear_mempool or the write of the rebuilt batch
ResyncStep == resync.pc \in {"clear_mempool", "apply_batch"} /\ resync' # resync

\* every spend of tx is a row of mempool_utxo_set_remove (and, for an address
\* input, of mempool_addr_utxo_remove) in the store d
SpendsRecorded(d, tx) ==
    \A i \in 1..Len(tx.inputs) :
        LET outpoint == tx.inputs[i].outpoint.v
            destination == destination_from_script(tx.inputs[i].previous_script)
        IN /\ get_cf(d, "mempool_utxo_set_remove",
                     UtxoKey(outpoint.hash, outpoint.index)).some
           /\ destination.kind = "Address" =>
                get_cf(d, "mempool_addr_utxo_remove",
                       AddrUtxoKey(destination.addr_type, destination.hash,
                                   outpoint.hash, outpoint.index)).some

\* C17: writing a mempool batch and every step of clear_mempool leave the
\* eight confirmed column families unchanged; a mempool spend is recorded as
\* rows of mempool_utxo_set_remove and mempool_addr_utxo_remove, and a mempool
\* batch holds only puts to mempool column families.
C17_Frame ==
    [][(TxStep \/ ResyncStep) =>
        /\ ConfirmedPart(db') = ConfirmedPart(db)
        /\ TxStep => SpendsRecorded(db', UserTx(Head(feeds.mempool.stream), 0))
        /\ resync.pc = "apply_batch" =>
            \A i \in 1..Len(resync.batch) :
                resync.batch[i].op = "put" /\ resync.batch[i].cf \in MempoolCfs]_vars

\* clear_mempool is under way on a store where a mempool transaction spends a
\* confirmed output: the confirmed rows are all still there
C17_Witness ==
    /\ resync.pc = "clear_mempool" /\ resync.next_cf = 4
    /\ ConfirmedPart(db) = ConfirmedPart(hist.before_clear)
    /\ \E k \in OutpointSpace :
        /\ get_cf(db, "mempool_utxo_set_remove", k).some
        /\ get_cf(db, "utxo_set", k).some
    /\ \E ak \in DOMAIN db["mempool_addr_utxo_remove"] : get_cf(db, "addr_utxo", ak).some
    /\ db["block_height_idx"] = hist.before_clear["block_height_idx"]

\* the reads of a call that a single write of a writer task separates: the
\* write falls after the creation of the mempool iterator (1), after the
\* mempool pass (2), or after the creation of the confirmed iterator (3)
SplitPoints == {1, 2, 3}

address_split(p, d, e, a) ==
    address_reads(d, IF p = 1 THEN e ELSE d, IF p = 3 THEN d ELSE e, e,
                  a[1], Hash20(a[2]), 0, MaxTake, "last")

address_balance_split(p, d, e, a) ==
    address_balance_reads(d, IF p = 1 THEN e ELSE d, IF p = 3 THEN d ELSE e, e,
                          a[1], Hash20(a[2]))

\* C18: a read that a writer's step db -> db' falls into returns what the query
\* returns on db or on db', and does not fail for a missing row.
C18_SingleSnapshot ==
    [][\A a \in AddrSpace : \A p \in SplitPoints :
        /\ address_split(p, db, db', a).ok
        /\ address_split(p, db, db', a)
            \in {address(db, a[1], Hash20(a[2]), 0, MaxTake, "last"),
                 address(db', a[1], Hash20(a[2]), 0, MaxTake, "last")}
        /\ address_balance_split(p, db, db', a)
            \in {address_balance(db, a[1], Hash20(a[2])),
                 address_balance(db', a[1], Hash20(a[2]))}]_vars

\* C19: the mempool-tx loop never writes while the new-block loop is inside
\* its handler (block batch, clear_mempool, rebuilt batch): the writes of the
\* two tasks to the mempool column families do not interleave.
C19_SingleWriter ==
    [][TxStep /\ db' # db => resync.pc = "idle"]_vars

\* C20: between the return of clear_mempool and the write of the rebuilt batch
\* the eight mempool column families are empty and the overlay reads answer
\* as on the confirmed layer alone.
C20_EmptyInterval ==
    resync.pc = "apply_batch" =>
        /\ \A cf \in MempoolCfs : db[cf] = EmptyCf
        /\ \A k \in OutpointSpace : utxo(db, k) = utxo(ConfirmedOnly(db), k)
        /\ \A T \in TxHashSpace : tx_meta(db, T) = tx_meta(ConfirmedOnly(db), T)

\* the step in which update_mempool writes its batch and returns
ResyncCompletes == resync.pc = "apply_batch" /\ resync'.pc = "idle"

Ingested == UNION {TxsOf(hist.committed[h]) : h \in DOMAIN hist.committed}

\* a GENESIS transaction of token id: a genesis action carrying the genesis
\* metadata of its token type, judged Valid
ValidGenesis(tx, id) ==
    /\ tx.slp_transaction_info.some
    /\ LET slp == tx.slp_transaction_info.v
       IN /\ slp.validity_judgement = "Valid"
          /\ slp.token_id = id
          /\ slp.tx_metadata.some
          /\ \/ /\ slp.slp_action \in {"SlpV1Genesis", "SlpV1Nft1GroupGenesis"}
                /\ slp.tx_metadata.v.kind = "V1Genesis"
             \/ /\ slp.slp_action = "SlpV1Nft1UniqueChildGenesis"
                /\ slp.tx_metadata.v.kind = "V1Nft1ChildGenesis"

LastMined == node'.chain[Len(node'.chain)].block

InSum(tx) ==
    SumSeq([i \in 1..Len(tx.inputs) |-> token_amount_of(tx.inputs[i].slp_token)])
OutSum(tx) ==
    SumSeq([i \in 1..Len(tx.outputs) |-> token_amount_of(tx.outputs[i].slp_token)])

\* the decision table of the SLP classification
DecisionTable(tx) ==
    LET info == tx.slp_transaction_info
        invalid == [variant |-> "InvalidSlp", token_id |-> info.v.token_id,
                    token_input |-> InSum(tx)]
    IN CASE ~info.some -> [variant |-> "SatsOnly"]
         [] info.some /\ info.v.validity_judgement = "UnknownOrInvalid" ->
                IF InSum(tx) = 0 THEN [variant |-> "SatsOnly"] ELSE invalid
         [] info.some /\ info.v.validity_judgement = "Valid" ->
                IF info.v.slp_action = "NonSlp" THEN [variant |-> "SatsOnly"]
                ELSE IF info.v.slp_action \in
                          {"NonSlpBurn", "SlpParseError", "SlpUnsupportedVersion"}
                THEN invalid
                ELSE [variant |-> "Slp", action |-> info.v.slp_action,
                      token_input |-> InSum(tx), token_output |-> OutSum(tx),
                      token_id |-> info.v.token_id]

Mined == UNION {TxsOf(node.chain[h].block) : h \in 1..Len(node.chain)}

\* C23: tx_meta_variant is total and equals the decision table: for every
\* transaction a block delivers it returns a variant, and that variant is
\* the table's entry for (SLP info, validity, action, input token sum).
C23_DecisionTable ==
    \A tx \in Mined :
        /\ tx_meta_variant(tx).ok
        /\ tx_meta_variant(tx).v = DecisionTable(tx)

\* where tx_meta_variant returns, it returns the table's entry, and the
\* tx_meta row of an ingested transaction stores it
C23_TableWhereDefined ==
    /\ \A tx \in Mined :
          tx_meta_variant(tx).ok => tx_meta_variant(tx).v = DecisionTable(tx)
    /\ \A tx \in Ingested :
          /\ get_cf(db, "tx_meta", tx.hash).some
          /\ get_cf(db, "tx_meta", tx.hash).v.variant = DecisionTable(tx)

Pays(script, addr) ==
    /\ destination_from_script(script).kind = "Address"
    /\ <<destination_from_script(script).addr_type>>
           \o destination_from_script(script).hash = addr

\* C24: every addr_tx_meta row of a transaction T and an address A holds
\* delta_sats = (values of T's outputs paying A) - (values of T's inputs
\* spending from A) and delta_tokens likewise for token amounts.
C24_Delta ==
    \A key \in DOMAIN db["addr_tx_meta"] :
        \E tx \in Ingested :
            /\ tx.hash = tx_hash_of(key)
            /\ db["addr_tx_meta"][key].delta_sats =
                  SumSeq([i \in 1..Len(tx.outputs) |->
                          IF Pays(tx.outputs[i].pubkey_script, addr_of(key))
                          THEN tx.outputs[i].value ELSE 0])
                  - SumSeq([i \in 1..Len(tx.inputs) |->
                          IF Pays(tx.inputs[i].previous_script, addr_of(key))
                          THEN tx.inputs[i].value ELSE 0])
            /\ db["addr_tx_meta"][key].delta_tokens =
                  SumSeq([i \in 1..Len(tx.outputs) |->
                          IF Pays(tx.outputs[i].pubkey_script, addr_of(key))
                          THEN token_amount_of(tx.outputs[i].slp_token) ELSE 0])
                  - SumSeq([i \in 1..Len(tx.inputs) |->
                          IF Pays(tx.inputs[i].previous_script, addr_of(key))
                          THEN token_amount_of(tx.inputs[i].slp_token) ELSE 0])

\* an address whose only involvement is a spent input of 50 has a row with
\* delta_sats = -50, and a sender of tokens a row with delta_tokens = -700
C24_Witness ==
    /\ hist.applied = <<0, 1>>
    /\ LET row(h) == get_cf(db, "addr_tx_meta",
                        AddrTxKey(P2PKH, Hash20(2), h, Hash32(5, h)))
       IN /\ row(0).some /\ row(0).v.delta_sats = -50 /\ row(0).v.delta_tokens = 0
          /\ row(1).some /\ row(1).v.delta_sats = -40 /\ row(1).v.delta_tokens = -700

(***************************************************************************)
(* Counting the transactions of an address (StoreSpec).                    *)
(***************************************************************************)
RowsWithPrefix(d, cf, addr_type, addr_hash) ==
    {key \in DOMAIN d[cf] : addr_of(key) = AddrKeyPrefix(addr_type, addr_hash)}

\* C25: for every address (type, hash) and every store state,
\* address_num_txs is the number of mempool_addr_tx_meta rows plus the
\* number of addr_tx_meta rows whose 21-byte prefix is the address; rows of
\* the same hash under the other address type, or of other addresses, are
\* not counted.
C25_NumTxs ==
    \A addr_type \in {P2PKH, P2SH} : \A n \in 1..3 :
        address_num_txs(db, addr_type, Hash20(n)) =
            Cardinality(RowsWithPrefix(db, "mempool_addr_tx_meta", addr_type, Hash20(n)))
            + Cardinality(RowsWithPrefix(db, "addr_tx_meta", addr_type, Hash20(n)))

(***************************************************************************)
(* Life cycle of confirmed rows and the start height (Spec).               *)
(***************************************************************************)
BlockApplied == Len(hist'.applied) = Len(hist.applied) + 1
LastApplied == hist'.applied[Len(hist'.applied)]

\* C26: over an in-order sequence of block commits every confirmed
\* (column family, key) is written at most once, and the only confirmed rows
\* deleted are utxo_set rows of outputs a later block spends: a commit puts
\* no key the store already holds and deletes in no column family other
\* than utxo_set, and no other step changes a confirmed column family.
C26_WriteOnce ==
    [][/\ BlockApplied =>
            \A o \in {commit.block_shelf[LastApplied].batch[i] :
                          i \in 1..Len(commit.block_shelf[LastApplied].batch)} :
                 /\ o.cf \in ConfirmedCfs
                 /\ o.op = "put" => o.key \notin DOMAIN db[o.cf]
                 /\ o.op = "delete" => o.cf = "utxo_set"
       /\ ~BlockApplied => \A cf \in ConfirmedCfs : db'[cf] = db[cf]]_vars

\* the outpoint of a coinbase input
NullOutpoint == UtxoKey([i \in 1..32 |-> 0], <<255, 255, 255, 255>>)

\* the outpoints the inputs of a block's transactions spend
SpentBy(block) ==
    UNION {{UtxoKey(tx.inputs[i].outpoint.v.hash, tx.inputs[i].outpoint.v.index) :
                i \in {j \in 1..Len(tx.inputs) : tx.inputs[j].outpoint.some}} :
           tx \in TxsOf(block)}

\* C26 (amended): a commit puts only keys the store does not hold, except
\* the tx_out_spend row of the null outpoint, which every block's coinbase
\* input overwrites, and except the start-up commit of the last stored
\* block, which rewrites that block's rows with the values they have; it
\* deletes only utxo_set and addr_utxo rows of outputs the block spends; no
\* other step changes a confirmed column family.
C26_Lifecycle ==
    [][/\ BlockApplied =>
            \A spent \in {SpentBy(hist'.committed[LastApplied])} :
            \A o \in {commit.block_shelf[LastApplied].batch[i] :
                          i \in 1..Len(commit.block_shelf[LastApplied].batch)} :
                 /\ o.cf \in ConfirmedCfs
                 /\ o.op = "put" =>
                      \/ o.key \notin DOMAIN db[o.cf]
                      \/ o.cf = "tx_out_spend" /\ o.key = NullOutpoint
                      \/ /\ block_hash_at(db, LastApplied)
                               = Some(hist'.committed[LastApplied].info.v.hash)
                         /\ db[o.cf][o.key] = o.value
                 /\ o.op = "delete" =>
                      \/ o.cf = "utxo_set" /\ o.key \in spent
                      \/ o.cf = "addr_utxo" /\ utxo_key_of(o.key) \in spent
       /\ ~BlockApplied => \A cf \in ConfirmedCfs : db'[cf] = db[cf]]_vars

\* blocks 0 and 1 are committed: block 1 has spent the coinbase output of
\* block 0, whose utxo_set and addr_utxo rows are gone, and its coinbase
\* has overwritten the tx_out_spend row of the null outpoint
C26_Witness ==
    /\ Len(hist.applied) >= 2
    /\ hist.applied[Len(hist.applied)] = 1
    /\ get_cf(db, "tx_out_spend", UtxoKey(Hash32(1, 0), U32BE(0))).some
    /\ ~get_cf(db, "utxo_set", UtxoKey(Hash32(1, 0), U32BE(0))).some
    /\ ~get_cf(db, "addr_utxo",
               AddrUtxoKey(P2PKH, Hash20(1), Hash32(1, 0), U32BE(0))).some
    /\ get_cf(db, "tx_out_spend", NullOutpoint).v.by_tx_hash = Hash32(1, 1)

\* C27: on start-up with a stored last block L the shared counter starts at
\* L + 1 and the watch channel at L; no fetcher claims, and the commit loop
\* never applies, a height whose block the store already holds.
C27_StartHeight ==
    /\ block_hash_at(db, 0).some =>
          /\ current_height_atomic = last_block_height(db) + 1
          /\ watch_height.value = last_block_height(db)
    /\ [][/\ \A f \in Threads :
              (fetchers[f].pc = "fetch_add" /\ fetchers'[f].pc # "fetch_add")
                  => ~block_hash_at(db, fetchers'[f].block_height).some
          /\ BlockApplied => ~block_hash_at(db, LastApplied).some]_vars

(***************************************************************************)
(* The live loops under malformed notifications (FeedSpec).                *)
(***************************************************************************)
\* C28: once spawned, the new-block loop and the mempool-tx loop never exit:
\* whatever a notification holds, each loop is subscribing, reading its
\* stream or (the new-block loop) inside update_mempool.
C28_LoopsNeverExit ==
    /\ feeds.blocks.pc \in {"none", "subscribe", "stream", "update_mempool"}
    /\ feeds.mempool.pc \in {"none", "subscribe", "stream"}

\* the mempool-tx loop handles the notification of the transaction without
\* inputs
BadTxHandled ==
    /\ feeds.mempool.pc = "stream"
    /\ Len(feeds.mempool.stream) > 0
    /\ Head(feeds.mempool.stream) = BadTxId
    /\ Len(feeds'.mempool.stream) < Len(feeds.mempool.stream)
    /\ hist'.faults = hist.faults

\* update_mempool has listed a mempool that holds the transaction without
\* inputs and leaves its get_mempool / make_mempool_tx_batches step
BadTxListed ==
    /\ resync.pc = "get_mempool"
    /\ resync'.pc # "get_mempool"
    /\ BadTxId \in node.mempool
    /\ hist'.faults = hist.faults

\* C29: a mempool transaction whose batch cannot be built leaves the mempool
\* rows of the other transactions unchanged and does not keep them from
\* being written: on the mempool-tx feed the store is unchanged and the
\* notifications behind it stay to be handled; in a resync the batch of the
\* other listed transactions is built and goes on to be written.
C29_BadTxIsolated ==
    [][/\ BadTxHandled =>
            /\ db' = db
            /\ \A i \in 2..Len(feeds.mempool.stream) :
                  \E j \in 1..Len(feeds'.mempool.stream) :
                      feeds'.mempool.stream[j] = feeds.mempool.stream[i]
       /\ BadTxListed =>
            /\ db' = db
            /\ resync'.pc = "clear_mempool"
            /\ resync'.batch = mempool_batch_of(node.mempool \ {BadTxId}).v]_vars

(***************************************************************************)
(* Listing blocks by height (StoreSpec).                                   *)
(***************************************************************************)
MaxRange == 3

\* the blocks of the consecutive heights start, start + 1, ..., up to the
\* first height without a block_height_idx row and at most n of them
RECURSIVE ConsecutiveBlocks(_, _, _)
ConsecutiveBlocks(d, start, n) ==
    IF n = 0 \/ ~block_hash_at(d, start).some THEN <<>>
    ELSE <<<<block_hash_at(d, start).v,
             block_meta(d, block_hash_at(d, start).v).v>>>>
         \o ConsecutiveBlocks(d, start + 1, n - 1)

\* C30: for every start, n and index content, block_range(start, n) is the
\* list of (hash, BlockMeta) of the consecutive heights start, start + 1, ...
\* in ascending order, ending at the first height without a row or after n
\* entries; no block below start or at or above start + n is returned, and
\* the list is empty on an empty index.
C30_BlockRange ==
    \A start \in 0..(Tip + MaxLiveBlocks + 1) : \A n \in 0..MaxRange :
        /\ block_range(db, start, n).ok
        /\ block_range(db, start, n).v = ConsecutiveBlocks(db, start, n)

(***************************************************************************)
(* Search (StoreSpec).                                                     *)
(***************************************************************************)
\* a cash address, hashes of an indexed transaction, of indexed and of
\* unknown blocks, digit strings of odd and of even length, and other text
Queries ==
    {SampleCashAddr,
     to_le_hex(Hash32(1, 0)), to_le_hex(UserTxHash(1)),
     to_le_hex(BlockHash(0)), to_le_hex(BlockHash(Tip + 1)), to_le_hex(Hash32(99, 9)),
     <<"0">>, <<"1">>, <<"3">>, <<"0", "0">>, <<"0", "1">>, <<"0", "4">>, <<"1", "0">>,
     <<"a", "b">>, <<"x", "y">>, <<>>}

\* the first match of: cash address, hash of an indexed transaction, hash of
\* an indexed block, height of an indexed block; None otherwise
FirstMatch(d, query) ==
    IF from_cash_addr(query).ok THEN Some([route |-> "address", arg |-> query])
    ELSE IF from_le_hex(query).ok /\ tx_meta(d, from_le_hex(query).v).some
    THEN Some([route |-> "tx", arg |-> query])
    ELSE IF from_le_hex(query).ok /\ block_meta(d, from_le_hex(query).v).some
    THEN Some([route |-> "block", arg |-> query])
    ELSE IF parse_u32(query).ok /\ block_hash_at(d, parse_u32(query).v).some
    THEN Some([route |-> "block-height", arg |-> parse_u32(query).v])
    ELSE None

\* C31: for every query string and index state, search returns the first
\* match of cash address, indexed transaction hash, indexed block hash and
\* indexed block height, and None otherwise: a path only for an entity the
\* index holds, and every digit string resolved as a height or None.
C31_Search ==
    \A query \in Queries :
        /\ search(db, query).ok
        /\ search(db, query).v = FirstMatch(db, query)

(***************************************************************************)
(* Script classification (Spec).                                           *)
(***************************************************************************)
\* well-formed scripts of each class, scripts with the opcodes of a class
\* around a hash or key of the wrong length, and other byte strings
Scripts ==
    {generate_script(1), P2shScript(1), P2pkScript, NulldataScript,
     <<65>> \o [i \in 1..65 |-> 4] \o <<OP_CHECKSIG>>,
     <<OP_DUP, OP_HASH160, 20>> \o [i \in 1..19 |-> 1] \o <<OP_EQUALVERIFY, OP_CHECKSIG>>,
     <<OP_DUP, OP_HASH160, 20, OP_EQUALVERIFY, OP_CHECKSIG>>,
     <<OP_HASH160, 20>> \o [i \in 1..21 |-> 1] \o <<OP_EQUAL>>,
     <<33>> \o [i \in 1..10 |-> 2] \o <<OP_CHECKSIG>>,
     <<33, OP_CHECKSIG>>,
     <<OP_RETURN>>, <<OP_DUP>>, <<1, 2, 3>>, <<>>}

\* the scripts of the inputs and outputs of the committed blocks
CommittedScripts ==
    UNION {{tx.inputs[i].previous_script : i \in 1..Len(tx.inputs)}
           \cup {tx.outputs[i].pubkey_script : i \in 1..Len(tx.outputs)} :
           tx \in Ingested}

\* the class the table gives a script
ScriptClass(script) ==
    LET n == Len(script) IN
    IF /\ n = 25
       /\ SubSeq(script, 1, 3) = <<OP_DUP, OP_HASH160, 20>>
       /\ SubSeq(script, 24, 25) = <<OP_EQUALVERIFY, OP_CHECKSIG>>
    THEN [kind |-> "Address", addr_type |-> P2PKH, hash |-> SubSeq(script, 4, 23)]
    ELSE IF n = 23 /\ SubSeq(script, 1, 2) = <<OP_HASH160, 20>> /\ script[23] = OP_EQUAL
    THEN [kind |-> "Address", addr_type |-> P2SH, hash |-> SubSeq(script, 3, 22)]
    ELSE IF n >= 2 /\ script[1] \in {33, 65} /\ n = script[1] + 2 /\ script[n] = OP_CHECKSIG
    THEN [kind |-> "P2PK", pk |-> SubSeq(script, 2, n - 1)]
    ELSE IF n >= 1 /\ script[1] = OP_RETURN
    THEN [kind |-> "Nulldata", data |-> SubSeq(script, 2, n)]
    ELSE [kind |-> "Unknown", script |-> script]

\* C32: destination_from_script is total over all byte strings and gives
\* every script the class of the table: P2PKH and P2SH exactly for the two
\* address templates around 20 bytes, P2PK exactly for a 33- or 65-byte
\* push followed by OP_CHECKSIG, Nulldata after OP_RETURN, and Unknown for
\* everything else, a hash or key of the wrong length included.
C32_ScriptTable ==
    \A script \in Scripts \cup CommittedScripts :
        /\ destination_from_script(script).kind # "Panic"
        /\ destination_from_script(script) = ScriptClass(script)

(***************************************************************************)
(* Key order (StoreSpec).                                                  *)
(***************************************************************************)
\* heights as the i32 the node sends; a negative one is the u32 above 2^31
HeightSamples ==
    {0, 255, 256, 65535, 65536, 16777216, 2147483647, -2147483647 - 1, -1}

\* a < b as unsigned 32-bit values
ULess(a, b) == (a >= 0 /\ b < 0) \/ ((a < 0 <=> b < 0) /\ a < b)

\* the rows of one address in a column family, in the order of a forward scan
ScanOf(d, cf, prefix) ==
    SelectSeq(raw_iterator_cf(d, cf), LAMBDA key : addr_of(key) = prefix)

\* C33: for heights h1 < h2 (unsigned 32 bit) the 4-byte key of h1 is
\* smaller in byte order than that of h2, and for a fixed address every
\* AddrTxKey at h1 sorts before every AddrTxKey at h2; so a forward scan
\* over an address visits rows in non-decreasing block height, and
\* last_block_height is the greatest committed height.
C33_KeyOrder ==
    /\ \A h1 \in HeightSamples : \A h2 \in HeightSamples :
          ULess(h1, h2) =>
            /\ BytesLess(I32AsU32BE(h1), I32AsU32BE(h2))
            /\ BytesLess(AddrTxKey(P2PKH, Hash20(1), h1, Hash32(255, 255)),
                         AddrTxKey(P2PKH, Hash20(1), h2, Hash32(0, 0)))
    /\ \A cf \in {"addr_tx_meta", "mempool_addr_tx_meta"} :
          \A prefix \in {addr_of(key) : key \in DOMAIN db[cf]} :
            \A scan \in {ScanOf(db, cf, prefix)} :
              \A i \in 1..(Len(scan) - 1) :
                 db[cf][scan[i]].block_height <= db[cf][scan[i + 1]].block_height
    /\ \A h \in DOMAIN hist.committed : h <= last_block_height(db)
    /\ last_block_height(db) \in DOMAIN hist.committed

\* an address has rows at three heights and live blocks are committed
C33_Witness ==
    /\ Len(ScanOf(db, "addr_tx_meta", AddrKeyPrefix(P2PKH, Hash20(1)))) >= 3
    /\ last_block_height(db) = Tip + MaxLiveBlocks
    /\ db["addr_tx_meta"][ScanOf(db, "addr_tx_meta", AddrKeyPrefix(P2PKH, Hash20(1)))[1]]
            .block_height = 0

(***************************************************************************)
(* Store errors in the commit loop (Spec).                                 *)
(***************************************************************************)
\* C34: once applying a block batch has failed with a store error, the
\* commit loop has stopped and run_indexer has the error: no batch of that
\* or any greater height is applied, no mempool resync runs and no live
\* feed is started.
C34_StoreErrorFatal ==
    hist.write_failed_at # {} =>
        /\ commit.pc = "returned_err"
        /\ \A g \in hist.write_failed_at :
              /\ \A i \in 1..Len(hist.applied) : hist.applied[i] < g
              /\ ~block_hash_at(db, g).some \/ g = hist.start
        /\ resync = IdleResync
        /\ hist.initial_resyncs = 0
        /\ spawned = <<>>
        /\ feeds = NoFeeds

\* the write of a height failed after a lower one was applied, while the
\* batch of a greater height waits on the shelf
C34_Witness ==
    /\ hist.write_failed_at # {}
    /\ Len(hist.applied) >= 1
    /\ \E g \in hist.write_failed_at : \E h \in DOMAIN commit.block_shelf : h > g

(***************************************************************************)
(* Completeness of the height index in the live phase (StoreSpec).         *)
(***************************************************************************)
\* C35: at every state after the hand-over to the live feeds, every height
\* from the first indexed one to last_block_height has a block_height_idx
\* row: no block mined before the block subscription is established, or
\* while it is restarted, is left out.
C35_NoMissingHeight ==
    \A h \in 0..last_block_height(db) : block_hash_at(db, h).some

(***************************************************************************)
(* What a fetcher does with a height it has claimed (Spec).                *)
(***************************************************************************)
\* the step of fetcher f puts the batch of its claimed height on the work queue
Delivers(f) ==
    /\ fetchers[f].pc = "send"
    /\ Len(chan'.queue) = Len(chan.queue) + 1
    /\ chan'.queue[Len(chan'.queue)] = fetchers[f].batches

\* C36: a fetcher that goes on to claim the next height has delivered the
\* batch of the height it held; an answer without a block or a failed send
\* on the work queue never lets it continue with the height undelivered.
C36_ClaimedIsDelivered ==
    [][\A f \in DOMAIN fetchers :
          (/\ fetchers[f].pc \in {"get_block", "send"}
           /\ fetchers'[f].pc = "fetch_add") => Delivers(f)]_vars

NotifiedDuringResync(u) ==
    /\ resync.pc \in {"clear_mempool", "apply_batch"}
    /\ u \notin hist.listed
    /\ u \in node.mempool
    /\ get_cf(db, "mempool_tx_meta", UserTxHash(u)).some

\* C38: a transaction notified while a mempool resync is in progress and
\* still unconfirmed stays in the mempool overlay: no step of the resync
\* removes the row its notification wrote, so it is present when both the
\* resync and the handler have finished.
C38_NotifiedTxKept ==
    [][\A u \in UserTxIds :
          NotifiedDuringResync(u) /\ u \in node'.mempool
              => get_cf(db', "mempool_tx_meta", UserTxHash(u)).some]_vars

(***************************************************************************)
(* Duplicates in the answers of address and address_balance (StoreSpec).   *)
(***************************************************************************)
\* no two positions of a sequence hold the same value
NoRepeat(seq) == \A i, j \in 1..Len(seq) : seq[i] = seq[j] => i = j

\* a take large enough for every row an address has in the model
AllRows == MaxSkip + 2 * MaxTake

\* the outpoints address_balance returns, over every token
BalanceOutpoints(balance) ==
    [t \in DOMAIN balance.utxos |->
        [i \in 1..Len(balance.utxos[t]) |-> balance.utxos[t][i][1]]]

\* C39: at every reachable state, between a live block's commit and the end
\* of the mempool resync that follows it included, address lists each
\* transaction at most once and address_balance counts each unspent outpoint
\* at most once.
C39_NoDuplicates ==
    \A a \in AddrSpace :
        /\ \A prev_on_invalid \in PrevOnInvalid :
              \A listing \in {address(db, a[1], Hash20(a[2]), 0, AllRows, prev_on_invalid)} :
                  listing.ok =>
                      NoRepeat([i \in 1..Len(listing.v) |-> listing.v[i].tx_hash])
        /\ \A balance \in {address_balance(db, a[1], Hash20(a[2]))} :
              \A t \in DOMAIN balance.utxos : NoRepeat(BalanceOutpoints(balance)[t])

(***************************************************************************)
(* addr_utxo against utxo_set in the confirmed layer (Spec).               *)
(***************************************************************************)
\* the outputs of the committed transactions: transaction and 1-based index
CommittedOutputs ==
    UNION {{[tx |-> tx, i |-> i] : i \in 1..Len(tx.outputs)} :
              tx \in UNION {TxsOf(hist.committed[h]) : h \in DOMAIN hist.committed}}

\* the address prefixes of the rows addr_utxo holds, and of every address
\* the model's scripts pay
AddrPrefixes ==
    {addr_of(k) : k \in DOMAIN db["addr_utxo"]}
        \cup {AddrKeyPrefix(a[1], Hash20(a[2])) : a \in AddrSpace}

\* C40: after in-order block commits addr_utxo has the row (A, T, i) exactly
\* when utxo_set has the row (T, i) and the pubkey script of output (T, i)
\* classifies as address A; every addr_utxo row belongs to a committed
\* output; an output a committed block spends is in neither column family.
C40_AddrUtxoAgrees ==
    /\ \A c \in CommittedOutputs :
          \A k \in {UtxoKey(c.tx.hash, U32BE(c.i - 1))} :
          \A destination \in {destination_from_script(c.tx.outputs[c.i].pubkey_script)} :
          \A prefix \in AddrPrefixes :
              (prefix \o k \in DOMAIN db["addr_utxo"])
                  <=> /\ k \in DOMAIN db["utxo_set"]
                      /\ destination.kind = "Address"
                      /\ prefix = AddrKeyPrefix(destination.addr_type, destination.hash)
    /\ \A row \in DOMAIN db["addr_utxo"] :
          \E c \in CommittedOutputs :
              utxo_key_of(row) = UtxoKey(c.tx.hash, U32BE(c.i - 1))
    /\ \A h \in DOMAIN hist.committed : \A k \in SpentBy(hist.committed[h]) :
          /\ k \notin DOMAIN db["utxo_set"]
          /\ \A row \in DOMAIN db["addr_utxo"] : utxo_key_of(row) # k

\* blocks 0 to 2 are committed: the coinbase output of block 1, paid to an
\* address, has left both column families when block 2 spent it, the
\* pay-to-public-key output of block 1 is in utxo_set without an addr_utxo
\* row, and the coinbase output of block 2 is in both
C40_Witness ==
    /\ Len(hist.applied) >= 3
    /\ hist.applied[Len(hist.applied)] = 2
    /\ UtxoKey(Hash32(1, 1), U32BE(0)) \notin DOMAIN db["utxo_set"]
    /\ \A row \in DOMAIN db["addr_utxo"] :
          utxo_key_of(row) # UtxoKey(Hash32(1, 1), U32BE(0))
    /\ UtxoKey(Hash32(3, 1), U32BE(1)) \in DOMAIN db["utxo_set"]
    /\ \A row \in DOMAIN db["addr_utxo"] :
          utxo_key_of(row) # UtxoKey(Hash32(3, 1), U32BE(1))
    /\ UtxoKey(Hash32(1, 2), U32BE(0)) \in DOMAIN db["utxo_set"]
    /\ \E row \in DOMAIN db["addr_utxo"] :
          utxo_key_of(row) = UtxoKey(Hash32(1, 2), U32BE(0))

====
